---------------------------- MODULE Spec2Model ----------------------------
(* A model of the exchange session core of crypto_trade                    *)
(* (src/src/crypto_trade/exchange_api.py): the state cache (bbos, trades,  *)
(* ohlcvs, orders, fills, positions), the handlers that feed it from REST  *)
(* responses and websocket pushes, and the order operations create_order,  *)
(* cancel_order and cancel_orders.                                         *)
(*                                                                         *)
(* Python values are modelled as follows.  Optional[x] is None (the empty  *)
(* tuple) or Some(v) (a one-element tuple).  A dict is a function whose    *)
(* DOMAIN is the set of keys present.  A list is a sequence.  A decimal    *)
(* string is a string whose Decimal() value is given by DecimalOf.         *)
EXTENDS Integers, Sequences, FiniteSets, TLC

VARIABLES
    bbos,        \* Exchange.bbos: Dict[Symbol, Bbo]
    positions,   \* Exchange.positions: Dict[Symbol, Position]
    seen_positions, \* history: per symbol, the timestamped position updates with the greatest timestamp delivered so far
    ohlcvs,      \* Exchange.ohlcvs: Dict[Symbol, List[Ohlcv]]
    seen_ohlcvs, \* history: per bucket start, the candle of the last stream update seen for it
    trades,      \* Exchange.trades: Dict[Symbol, List[Trade]]
    fills,       \* Exchange.fills: Dict[Symbol, List[Fill]]
    stopped,     \* Exchange.stopped
    session,     \* where the caller stands with start() and stop()
    websocket_connection_auto_reconnect,  \* the constructor's option
    websocket_endpoints,                  \* the stream endpoints the options call for
    websocket_tasks,     \* endpoint -> where its start_websocket_connect task stands
    websocket_connections,                \* the keys of Exchange.websocket_connections
    connection,          \* endpoint -> the WebsocketConnection its task made last
    websocket_reconnect_delay_seconds,    \* Exchange.websocket_reconnect_delay_seconds
    websocket_logged_in_connections,      \* Exchange.websocket_logged_in_connections
    reset_tasks,         \* endpoint -> the start_reset_websocket_reconnect_delay tasks asleep
    periodic_tasks,      \* name -> where the periodic task of start() stands
    check_order_tasks,   \* name of a periodic order check -> where its loops over the orders stand
                         \* while it awaits the fetch_order it sent; None otherwise
    stop_connections,    \* the connections stop() has still to go through
    client_session_closed,                \* Exchange.client_session.closed
    balances,    \* Exchange.balances: Dict[Symbol, Balance]
    orders,      \* Exchange.orders: Dict[Symbol, List[Order]]
    order_symbols,      \* the keys of Exchange.orders in the order of their insertion (a dict iterates in it)
    cancel_orders_task, \* the cancel_orders call that is waiting in an await: what it was called with and
                        \* where its loops stand; None when there is none
    last_client_order_id_unix_timestamp_seconds, \* Exchange.last_client_order_id_unix_timestamp_seconds
    last_client_order_id_sequence_number,        \* Exchange.last_client_order_id_sequence_number
    send_rest_request_task, \* where the send_rest_request call the model follows stands in its chain
                            \* of requests, with what it has done so far (history)
    websocket_frames,    \* endpoint -> the TEXT frames of its connection: those that arrived and wait
                         \* for the loop of start_websocket_connect, those being handled, and what
                         \* the loop has done with them (history)
    options,     \* what the session was constructed with: the subscriptions and the adapter's trade id kind
    call         \* the handler the event loop is running: its name, its argument and the cache
                 \* it found (history); Idle between two handlers

vars == <<stopped, session, websocket_connection_auto_reconnect, websocket_endpoints, websocket_tasks,
          websocket_connections, connection, websocket_reconnect_delay_seconds,
          websocket_logged_in_connections, reset_tasks, periodic_tasks, check_order_tasks, stop_connections,
          client_session_closed, balances, bbos, positions, seen_positions, ohlcvs, seen_ohlcvs, trades, fills, orders, order_symbols,
          cancel_orders_task, last_client_order_id_unix_timestamp_seconds, last_client_order_id_sequence_number,
          send_rest_request_task, websocket_frames, options, call>>

\* the request pipelines; the actions of the session and those of the caches
\* leave them alone
pipeline_vars == <<send_rest_request_task, websocket_frames>>
bbo_vars == <<bbos>>
position_vars == <<positions, seen_positions>>
balance_vars == <<balances>>
session_vars ==
    <<stopped, session, websocket_connection_auto_reconnect, websocket_endpoints, websocket_tasks,
      websocket_connections, connection, websocket_reconnect_delay_seconds,
      websocket_logged_in_connections, reset_tasks, periodic_tasks, check_order_tasks, stop_connections,
      client_session_closed, pipeline_vars>>
ohlcv_vars == <<ohlcvs, seen_ohlcvs>>
trade_vars == <<trades>>
fill_vars == <<fills>>
client_order_id_vars == <<last_client_order_id_unix_timestamp_seconds, last_client_order_id_sequence_number>>
order_vars == <<orders, order_symbols, cancel_orders_task, client_order_id_vars>>

-----------------------------------------------------------------------------
(* Bounds of the model.                                                    *)

\* exchange timestamps of BBO and position updates range over 1..MaxT
MaxT == 2
\* payloads (prices) that tell two updates with the same timestamp apart
MaxPrice == 2
\* candle bucket starts range over 0..MaxBucket
MaxBucket == 2
\* the seconds of trade and fill time points range over 0..MaxSec
MaxSec == 2
\* create_order is called while the cache holds fewer than MaxOrders orders
MaxOrders == 1
\* the retention sweep finds up to MaxRetained orders on BTC
MaxRetained == 3

Symbols == {"BTC", "ETH"}

-----------------------------------------------------------------------------
(* Python values.                                                          *)

None == <<>>
Some(v) == <<v>>
Val(o) == o[1]

EmptyDict == [k \in {} |-> None]
DictSet(d, k, v) == [x \in (DOMAIN d) \cup {k} |-> IF x = k THEN v ELSE d[x]]
DictPop(d, k) == [x \in (DOMAIN d) \ {k} |-> d[x]]

\* Decimal(s), scaled by 100, of the decimal strings the model uses
DecimalStrings == {"0", "0.0", "0.4", "0.5", "0.50", "1"}
DecimalOf(s) ==
    CASE s = "0" -> 0
      [] s = "0.0" -> 0
      [] s = "0.4" -> 40
      [] s = "0.5" -> 50
      [] s = "0.50" -> 50
      [] s = "1" -> 100

\* the batches (lists) of at most two items a response or a push carries
Batches(S) == {<<>>} \cup {<<a>> : a \in S} \cup {<<a, b>> : a \in S, b \in S}

\* d.get(k) of a dict of lists, with the empty list for None (both are falsy)
DictGet(d, k) == IF k \in DOMAIN d THEN d[k] ELSE <<>>

\* a < b on Python tuples of integers
RECURSIVE tuple_less(_, _)
tuple_less(a, b) ==
    IF a = <<>> \/ b = <<>> THEN Len(a) < Len(b)
    ELSE Head(a) < Head(b) \/ (Head(a) = Head(b) /\ tuple_less(Tail(a), Tail(b)))

\* sorted(seq, key=key): ascending by key, items of equal key in their order in seq
sorted(seq, key(_)) ==
    LET n == Len(seq)
        before(j, i) == tuple_less(key(seq[j]), key(seq[i])) \/ (key(seq[j]) = key(seq[i]) /\ j < i)
        rank(i) == 1 + Cardinality({j \in 1..n : before(j, i)})
    IN  [p \in 1..n |-> seq[CHOOSE i \in 1..n : rank(i) = p]]

\* The event loop runs one handler at a time, each to its next await.
Idle == [op |-> "idle"]

\* the running handler returns to the event loop
handler_return ==
    /\ call # Idle
    /\ call' = Idle
    /\ UNCHANGED <<bbo_vars, position_vars, ohlcv_vars, trade_vars, fill_vars, order_vars, options, balance_vars, session_vars>>

-----------------------------------------------------------------------------
(* Session: start, the stream connection tasks, the monitors, stop.        *)

\* url_with_query_params of the market data stream and of the account stream
Endpoints == {"market_data", "account"}

\* the periodic tasks of start() that the model follows
PeriodicTasks == {"heartbeat_timeout", "check_open_order", "check_in_flight_order"}

\* the periodic tasks that look for stalled orders
CheckOrderTasks == {"check_open_order", "check_in_flight_order"}

MaxResetTasks == 1

\* WebsocketConnection.__init__, and the requests sent on the connection
NewConnection ==
    [closed |-> TRUE, close_message |-> None, received |-> FALSE, silent |-> FALSE, sent |-> <<>>]

\* no send_rest_request is under way
NoRestRequestTask == [pc |-> "none"]

\* the stream of a connection on which no frame has arrived
NoFrames == [count |-> 0, arrived |-> <<>>, handling |-> {}, begun |-> <<>>, ended |-> <<>>, raised |-> {}]

InitSessionState ==
    /\ websocket_tasks = [e \in Endpoints |-> "none"]
    /\ websocket_connections = {}
    /\ connection = [e \in Endpoints |-> NewConnection]
    /\ websocket_reconnect_delay_seconds = EmptyDict
    /\ websocket_logged_in_connections = {}
    /\ reset_tasks = [e \in Endpoints |-> 0]
    /\ periodic_tasks = [name \in PeriodicTasks |-> "none"]
    /\ check_order_tasks = [name \in CheckOrderTasks |-> None]
    /\ stop_connections = {}
    /\ client_session_closed = FALSE
    /\ send_rest_request_task = NoRestRequestTask
    /\ websocket_frames = [e \in Endpoints |-> NoFrames]

cache_vars ==
    <<bbo_vars, position_vars, balance_vars, ohlcv_vars, trade_vars, fill_vars, order_vars, options, call,
      pipeline_vars>>

websocket_reconnect_delay_seconds_exponential_backoff_initial == 1
websocket_reconnect_delay_seconds_exponential_backoff_base == 2
websocket_reconnect_delay_seconds_exponential_backoff_max == 60

min(a, b) == IF a <= b THEN a ELSE b

\* Exchange.calculate_next_websocket_reconnect_delay_seconds: the dict after
\* the call; the delay returned is its entry for the endpoint
calculate_next_websocket_reconnect_delay_seconds(d, url_with_query_params) ==
    IF url_with_query_params \notin DOMAIN d
    THEN DictSet(d, url_with_query_params, 0)
    ELSE DictSet(d, url_with_query_params,
                 IF d[url_with_query_params] > 0
                 THEN min(d[url_with_query_params] * websocket_reconnect_delay_seconds_exponential_backoff_base,
                          websocket_reconnect_delay_seconds_exponential_backoff_max)
                 ELSE websocket_reconnect_delay_seconds_exponential_backoff_initial)

\* Exchange.start, up to the tasks of websocket_market_data_connect and
\* websocket_account_connect
start_websocket_connects ==
    /\ session = "constructed"
    /\ session' = "starting"
    /\ websocket_tasks' = [e \in Endpoints |-> IF e \in websocket_endpoints THEN "created" ELSE "none"]
    /\ periodic_tasks' = [periodic_tasks EXCEPT !["check_open_order"] = "asleep",
                                                !["check_in_flight_order"] = "asleep"]
    /\ UNCHANGED <<stopped, websocket_connection_auto_reconnect, websocket_endpoints, websocket_connections,
                   connection, websocket_reconnect_delay_seconds, websocket_logged_in_connections,
                   reset_tasks, stop_connections, client_session_closed, check_order_tasks, cache_vars>>

\* Exchange.start, from there to its return; the tasks it created have
\* started by then, as it sleeps start_wait_seconds before it returns
start_returns ==
    /\ session = "starting"
    /\ \A e \in Endpoints : websocket_tasks[e] # "created"
    /\ session' = "started"
    /\ periodic_tasks' = [periodic_tasks EXCEPT !["heartbeat_timeout"] = "asleep"]
    /\ UNCHANGED <<stopped, websocket_connection_auto_reconnect, websocket_endpoints, websocket_tasks,
                   websocket_connections, connection, websocket_reconnect_delay_seconds,
                   websocket_logged_in_connections, reset_tasks, stop_connections, client_session_closed,
                   check_order_tasks, cache_vars>>

\* start_websocket_connect: the top of the loop, reached when the task starts
\* and when the reconnect delay is over; the connection attempt is issued
start_websocket_connect_attempt(e) ==
    /\ websocket_tasks[e] \in {"created", "delay"}
    /\ websocket_tasks' = [websocket_tasks EXCEPT ![e] = "connecting"]
    /\ connection' = [connection EXCEPT ![e] = NewConnection]
    /\ UNCHANGED <<stopped, session, websocket_connection_auto_reconnect, websocket_endpoints,
                   websocket_connections, websocket_reconnect_delay_seconds,
                   websocket_logged_in_connections, reset_tasks, periodic_tasks, stop_connections,
                   client_session_closed, check_order_tasks, cache_vars>>

\* the variant that leaves the loop whatever the options say
websocket_reconnect_or_break_never(e) ==
    /\ websocket_tasks' = [websocket_tasks EXCEPT ![e] = "done"]
    /\ UNCHANGED websocket_reconnect_delay_seconds

\* start_websocket_connect: after the connection is over or the attempt has
\* failed, sleep before the next attempt or leave the loop
websocket_reconnect_or_break(e) ==
    IF websocket_connection_auto_reconnect /\ ~stopped
    THEN /\ websocket_reconnect_delay_seconds' =
               calculate_next_websocket_reconnect_delay_seconds(websocket_reconnect_delay_seconds, e)
         /\ websocket_tasks' = [websocket_tasks EXCEPT ![e] = "delay"]
    ELSE /\ websocket_tasks' = [websocket_tasks EXCEPT ![e] = "done"]
         /\ UNCHANGED websocket_reconnect_delay_seconds

\* ws_connect raises
websocket_connect_fails(e) ==
    /\ websocket_tasks[e] = "connecting"
    /\ websocket_reconnect_or_break(e)
    /\ UNCHANGED <<stopped, session, websocket_connection_auto_reconnect, websocket_endpoints,
                   websocket_connections, connection, websocket_logged_in_connections, reset_tasks,
                   periodic_tasks, stop_connections, client_session_closed, check_order_tasks, cache_vars>>

\* ws_connect returns: websocket_on_connected and handle_websocket_on_connected
websocket_on_connected(e) ==
    /\ websocket_tasks[e] = "connecting"
    /\ websocket_tasks' = [websocket_tasks EXCEPT ![e] = "open"]
    /\ websocket_connections' = websocket_connections \cup {e}
    /\ connection' = [connection EXCEPT ![e] =
          [NewConnection EXCEPT !.closed = FALSE,
                                !.sent = IF e = "market_data" THEN <<"subscribe">> ELSE <<"login">>]]
    /\ UNCHANGED <<stopped, session, websocket_connection_auto_reconnect, websocket_endpoints,
                   websocket_reconnect_delay_seconds, websocket_logged_in_connections, reset_tasks,
                   periodic_tasks, stop_connections, client_session_closed, check_order_tasks, cache_vars>>

\* a TEXT frame arrives on an open connection: the loop of
\* start_websocket_connect stamps the connection and websocket_on_message
\* dispatches the frame; push data goes to the handlers of the caches
websocket_on_message(e, kind) ==
    /\ websocket_tasks[e] = "open"
    /\ ~connection[e].closed
    /\ kind = "login" =>
          /\ e = "account"
          /\ connection[e].sent = <<"login">>
          /\ reset_tasks[e] < MaxResetTasks
    /\ kind = "subscribe" =>
          /\ connection[e].sent # <<>>
          /\ connection[e].sent[Len(connection[e].sent)] = "subscribe"
          /\ reset_tasks[e] < MaxResetTasks
    /\ connection' = [connection EXCEPT
          ![e].received = TRUE,
          ![e].silent = FALSE,
          ![e].sent = IF kind = "login" THEN Append(@, "subscribe") ELSE @]
    /\ websocket_logged_in_connections' =
          IF kind = "login" THEN websocket_logged_in_connections \cup {e} ELSE websocket_logged_in_connections
    /\ reset_tasks' = IF kind \in {"login", "subscribe"} THEN [reset_tasks EXCEPT ![e] = @ + 1] ELSE reset_tasks
    /\ UNCHANGED <<stopped, session, websocket_connection_auto_reconnect, websocket_endpoints, websocket_tasks,
                   websocket_connections, websocket_reconnect_delay_seconds, periodic_tasks,
                   stop_connections, client_session_closed, check_order_tasks, cache_vars>>

\* start_reset_websocket_reconnect_delay: its sleep is over
reset_websocket_reconnect_delay(e) ==
    /\ reset_tasks[e] > 0
    /\ reset_tasks' = [reset_tasks EXCEPT ![e] = @ - 1]
    /\ websocket_reconnect_delay_seconds' = DictPop(websocket_reconnect_delay_seconds, e)
    /\ UNCHANGED <<stopped, session, websocket_connection_auto_reconnect, websocket_endpoints, websocket_tasks,
                   websocket_connections, connection, websocket_logged_in_connections, periodic_tasks,
                   stop_connections, client_session_closed, check_order_tasks, cache_vars>>

\* a whole timeout window goes by without a frame on an open connection
websocket_connection_silent(e) ==
    /\ websocket_tasks[e] = "open"
    /\ ~connection[e].closed
    /\ ~connection[e].silent
    /\ connection' = [connection EXCEPT ![e].silent = TRUE]
    /\ UNCHANGED <<stopped, session, websocket_connection_auto_reconnect, websocket_endpoints, websocket_tasks,
                   websocket_connections, websocket_reconnect_delay_seconds,
                   websocket_logged_in_connections, reset_tasks, periodic_tasks, stop_connections,
                   client_session_closed, check_order_tasks, cache_vars>>

\* the venue or the network closes an open connection
websocket_connection_lost(e) ==
    /\ websocket_tasks[e] = "open"
    /\ ~connection[e].closed
    /\ connection' = [connection EXCEPT ![e].closed = TRUE]
    /\ UNCHANGED <<stopped, session, websocket_connection_auto_reconnect, websocket_endpoints, websocket_tasks,
                   websocket_connections, websocket_reconnect_delay_seconds,
                   websocket_logged_in_connections, reset_tasks, periodic_tasks, stop_connections,
                   client_session_closed, check_order_tasks, cache_vars>>

\* start_websocket_connection_application_level_heartbeat_timeout: the test
\* on one connection, latest_receive_message_time_point set and older than
\* the timeout
heartbeat_timeout_expired(websocket_connection) ==
    websocket_connection.received /\ websocket_connection.silent

\* start_websocket_connection_application_level_heartbeat_timeout: the task
\* wakes and comes to the connection of e
websocket_connection_application_level_heartbeat_timeout(e) ==
    /\ periodic_tasks["heartbeat_timeout"] = "asleep"
    /\ e \in websocket_connections
    /\ ~connection[e].closed
    /\ heartbeat_timeout_expired(connection[e])
    /\ connection' = [connection EXCEPT ![e].closed = TRUE,
                                        ![e].close_message = Some("application level heartbeat timeout")]
    /\ UNCHANGED <<stopped, session, websocket_connection_auto_reconnect, websocket_endpoints, websocket_tasks,
                   websocket_connections, websocket_reconnect_delay_seconds,
                   websocket_logged_in_connections, reset_tasks, periodic_tasks, stop_connections,
                   client_session_closed, check_order_tasks, cache_vars>>

\* the variant that leaves the logged-in set as it is
websocket_on_disconnected_stays_logged_in(e) ==
    /\ websocket_tasks[e] = "open"
    /\ connection[e].closed
    /\ websocket_connections' = websocket_connections \ {e}
    /\ stop_connections' = stop_connections \ {e}
    /\ websocket_reconnect_or_break(e)
    /\ UNCHANGED <<stopped, session, websocket_connection_auto_reconnect, websocket_endpoints, connection,
                   websocket_logged_in_connections, reset_tasks, periodic_tasks, client_session_closed,
                   check_order_tasks, cache_vars>>

\* start_websocket_connect: the iteration over the frames ends because the
\* connection is closed; websocket_on_disconnected, then sleep or leave
websocket_on_disconnected(e) ==
    /\ websocket_tasks[e] = "open"
    /\ connection[e].closed
    /\ websocket_connections' = websocket_connections \ {e}
    /\ websocket_logged_in_connections' = websocket_logged_in_connections \ {e}
    /\ stop_connections' = stop_connections \ {e}
    /\ websocket_reconnect_or_break(e)
    /\ UNCHANGED <<stopped, session, websocket_connection_auto_reconnect, websocket_endpoints, connection,
                   reset_tasks, periodic_tasks, client_session_closed, check_order_tasks, cache_vars>>

\* the variant that cancels the tasks start() created and no other
cancel_all_tasks_of_start ==
    /\ websocket_tasks' = [e \in Endpoints |->
          IF websocket_tasks[e] \in {"none", "done"} THEN websocket_tasks[e] ELSE "cancelled"]
    /\ connection' = [e \in Endpoints |-> [connection[e] EXCEPT !.closed = TRUE]]
    /\ reset_tasks' = reset_tasks
    /\ periodic_tasks' = [name \in PeriodicTasks |->
          IF periodic_tasks[name] = "none" THEN "none" ELSE "cancelled"]

\* stop: for task in self.all_tasks: task.cancel().  A cancelled task raises
\* CancelledError at the await it stands at, which no except clause of the
\* tasks catches; leaving "async with ws_connect" closes the connection
\* without websocket_on_disconnected.
cancel_all_tasks ==
    /\ websocket_tasks' = [e \in Endpoints |->
          IF websocket_tasks[e] \in {"none", "done"} THEN websocket_tasks[e] ELSE "cancelled"]
    /\ connection' = [e \in Endpoints |-> [connection[e] EXCEPT !.closed = TRUE]]
    /\ reset_tasks' = [e \in Endpoints |-> 0]
    /\ periodic_tasks' = [name \in PeriodicTasks |->
          IF periodic_tasks[name] = "none" THEN "none" ELSE "cancelled"]

\* stop goes on through the connections it listed, to the first one it has
\* to close (an await) or, past them, to the await of the cancelled tasks
stop_close_or_cancel(to_go) ==
    IF \E e \in to_go : ~connection[e].closed
    THEN /\ \E e \in to_go :
               /\ ~connection[e].closed
               /\ connection' = [connection EXCEPT ![e].closed = TRUE]
               /\ stop_connections' = to_go \ {e}
         /\ session' = "stopping"
         /\ UNCHANGED <<websocket_tasks, reset_tasks, periodic_tasks>>
    ELSE /\ cancel_all_tasks
         /\ stop_connections' = {}
         /\ session' = "cancelled"

\* Exchange.stop, up to its first await
stop ==
    /\ session = "started"
    /\ stopped' = TRUE
    /\ stop_close_or_cancel(websocket_connections)
    /\ UNCHANGED <<websocket_connection_auto_reconnect, websocket_endpoints, websocket_connections,
                   websocket_reconnect_delay_seconds, websocket_logged_in_connections,
                   client_session_closed, check_order_tasks, cache_vars>>

\* Exchange.stop, after the close it awaited
stop_resume ==
    /\ session = "stopping"
    /\ stop_close_or_cancel(stop_connections)
    /\ UNCHANGED <<stopped, websocket_connection_auto_reconnect, websocket_endpoints, websocket_connections,
                   websocket_reconnect_delay_seconds, websocket_logged_in_connections,
                   client_session_closed, check_order_tasks, cache_vars>>

\* Exchange.stop, after the gather of the cancelled tasks, to its return
stop_returns ==
    /\ session = "cancelled"
    /\ session' = "stopped"
    /\ client_session_closed' = TRUE
    /\ UNCHANGED <<stopped, websocket_connection_auto_reconnect, websocket_endpoints, websocket_tasks,
                   websocket_connections, connection, websocket_reconnect_delay_seconds,
                   websocket_logged_in_connections, reset_tasks, periodic_tasks, stop_connections,
                   check_order_tasks, cache_vars>>

NextSession ==
    \/ start_websocket_connects
    \/ start_returns
    \/ \E e \in Endpoints : start_websocket_connect_attempt(e)
    \/ \E e \in Endpoints : websocket_connect_fails(e)
    \/ \E e \in Endpoints : websocket_on_connected(e)
    \/ \E e \in Endpoints, kind \in {"push", "login", "subscribe"} : websocket_on_message(e, kind)
    \/ \E e \in Endpoints : reset_websocket_reconnect_delay(e)
    \/ \E e \in Endpoints : websocket_connection_silent(e)
    \/ \E e \in Endpoints : websocket_connection_lost(e)
    \/ \E e \in Endpoints : websocket_connection_application_level_heartbeat_timeout(e)
    \/ \E e \in Endpoints : websocket_on_disconnected(e)
    \/ stop
    \/ stop_resume
    \/ stop_returns

-----------------------------------------------------------------------------
(* BBO cache.                                                              *)

BboValues ==
    [symbol : Symbols,
     exchange_update_time_point : {None} \cup {Some(t) : t \in 1..MaxT},
     best_bid_price : 1..MaxPrice]

\* update_bbo without any comparison of the timestamps
update_bbo_always(d, bbo) == DictSet(d, bbo.symbol, bbo)

\* update_bbo with a non-strict timestamp comparison
update_bbo_not_strict(d, bbo) ==
    IF bbo.symbol \notin DOMAIN d
       \/ d[bbo.symbol].exchange_update_time_point = None
       \/ bbo.exchange_update_time_point = None
       \/ Val(d[bbo.symbol].exchange_update_time_point) <= Val(bbo.exchange_update_time_point)
    THEN DictSet(d, bbo.symbol, bbo)
    ELSE d

\* Exchange.update_bbo
update_bbo(d, bbo) ==
    IF bbo.symbol \notin DOMAIN d
       \/ d[bbo.symbol].exchange_update_time_point = None
       \/ bbo.exchange_update_time_point = None
       \/ Val(d[bbo.symbol].exchange_update_time_point) < Val(bbo.exchange_update_time_point)
    THEN DictSet(d, bbo.symbol, bbo)
    ELSE d

\* for bbo in bbos: self.update_bbo(bbo=bbo)
RECURSIVE update_bbos(_, _)
update_bbos(d, batch) ==
    IF batch = <<>> THEN d
    ELSE update_bbos(update_bbo(d, Head(batch)), Tail(batch))

\* Exchange.update_rest_response_for_bbo
update_rest_response_for_bbo(batch) ==
    /\ call = Idle
    /\ bbos' = update_bbos(bbos, batch)
    /\ call' = [op |-> "update_rest_response_for_bbo", arg |-> batch, before |-> bbos]
    /\ UNCHANGED <<position_vars, ohlcv_vars, trade_vars, fill_vars, order_vars, options, balance_vars, session_vars>>

\* Exchange.update_websocket_push_data_for_bbo
update_websocket_push_data_for_bbo(batch) ==
    /\ call = Idle
    /\ bbos' = update_bbos(bbos, batch)
    /\ call' = [op |-> "update_websocket_push_data_for_bbo", arg |-> batch, before |-> bbos]
    /\ UNCHANGED <<position_vars, ohlcv_vars, trade_vars, fill_vars, order_vars, options, balance_vars, session_vars>>

-----------------------------------------------------------------------------
(* Position cache.                                                         *)

PositionQuantities == {"0", "0.0", "1"}

\* every adapter stamps a position with the venue's update time
PositionValues ==
    [symbol : Symbols,
     exchange_update_time_point : {Some(t) : t \in 1..MaxT},
     quantity : PositionQuantities]

\* Position.quantity_as_decimal.is_zero()
position_is_zero(position) == DecimalOf(position.quantity) = 0

\* Exchange.update_position
update_position(d, position) ==
    IF position.symbol \notin DOMAIN d
       \/ d[position.symbol].exchange_update_time_point = None
       \/ position.exchange_update_time_point = None
       \/ Val(d[position.symbol].exchange_update_time_point) < Val(position.exchange_update_time_point)
    THEN IF position_is_zero(position)
         THEN DictPop(d, position.symbol)
         ELSE DictSet(d, position.symbol, position)
    ELSE d

RECURSIVE update_positions(_, _)
update_positions(d, batch) ==
    IF batch = <<>> THEN d
    ELSE update_positions(update_position(d, Head(batch)), Tail(batch))

\* history: the updates with the greatest timestamp among those delivered
note_position(seen, position) ==
    LET s == position.symbol
        t == Val(position.exchange_update_time_point)
    IN  IF s \notin DOMAIN seen \/ seen[s].t < t
        THEN DictSet(seen, s, [t |-> t, updates |-> {position}])
        ELSE IF seen[s].t = t
             THEN DictSet(seen, s, [t |-> t, updates |-> seen[s].updates \cup {position}])
             ELSE seen

RECURSIVE note_positions(_, _)
note_positions(seen, batch) ==
    IF batch = <<>> THEN seen
    ELSE note_positions(note_position(seen, Head(batch)), Tail(batch))

\* Exchange.update_websocket_push_data_for_position
update_websocket_push_data_for_position(batch) ==
    /\ call = Idle
    /\ positions' = update_positions(positions, batch)
    /\ seen_positions' = note_positions(seen_positions, batch)
    /\ call' = [op |-> "update_websocket_push_data_for_position", arg |-> batch, before |-> positions]
    /\ UNCHANGED <<bbo_vars, ohlcv_vars, trade_vars, fill_vars, order_vars, options, balance_vars, session_vars>>

\* Exchange.update_rest_response_for_fetch_position
rest_positions_not_zero(batch) == SelectSeq(batch, LAMBDA x : ~position_is_zero(x))

rest_fetch_position_result(d, batch) ==
    LET not_zero == rest_positions_not_zero(batch)
        updated == update_positions(d, not_zero)
        keep == {not_zero[i].symbol : i \in 1..Len(not_zero)}
    IN  [s \in (DOMAIN updated) \cap keep |-> updated[s]]

update_rest_response_for_fetch_position(batch) ==
    /\ call = Idle
    /\ positions' = rest_fetch_position_result(positions, batch)
    /\ seen_positions' = note_positions(seen_positions, batch)
    /\ call' = [op |-> "update_rest_response_for_fetch_position", arg |-> batch, before |-> positions]
    /\ UNCHANGED <<bbo_vars, ohlcv_vars, trade_vars, fill_vars, order_vars, options, balance_vars, session_vars>>

-----------------------------------------------------------------------------
(* Balance cache.                                                          *)

BalanceSymbols == {"USDT", "BTC"}

\* every adapter stamps a balance with the venue's update time
BalanceValues ==
    [symbol : BalanceSymbols,
     exchange_update_time_point : {Some(t) : t \in 1..MaxT},
     quantity : PositionQuantities]

\* Balance.quantity_as_decimal.is_zero()
balance_is_zero(balance) == DecimalOf(balance.quantity) = 0

\* the variant that stores whatever it applies
update_balance_keeps_zero(d, balance) ==
    IF balance.symbol \notin DOMAIN d
       \/ d[balance.symbol].exchange_update_time_point = None
       \/ balance.exchange_update_time_point = None
       \/ Val(d[balance.symbol].exchange_update_time_point) < Val(balance.exchange_update_time_point)
    THEN DictSet(d, balance.symbol, balance)
    ELSE d

\* Exchange.update_balance
update_balance(d, balance) ==
    IF balance.symbol \notin DOMAIN d
       \/ d[balance.symbol].exchange_update_time_point = None
       \/ balance.exchange_update_time_point = None
       \/ Val(d[balance.symbol].exchange_update_time_point) < Val(balance.exchange_update_time_point)
    THEN IF balance_is_zero(balance)
         THEN DictPop(d, balance.symbol)
         ELSE DictSet(d, balance.symbol, balance)
    ELSE d

RECURSIVE update_balances(_, _)
update_balances(d, batch) ==
    IF batch = <<>> THEN d
    ELSE update_balances(update_balance(d, Head(batch)), Tail(batch))

\* Exchange.update_websocket_push_data_for_balance
update_websocket_push_data_for_balance(batch) ==
    /\ call = Idle
    /\ balances' = update_balances(balances, batch)
    /\ call' = [op |-> "update_websocket_push_data_for_balance", arg |-> batch, before |-> balances]
    /\ UNCHANGED <<bbo_vars, position_vars, ohlcv_vars, trade_vars, fill_vars, order_vars, options, session_vars>>

\* Exchange.update_rest_response_for_fetch_balance
rest_balances_not_zero(batch) == SelectSeq(batch, LAMBDA x : ~balance_is_zero(x))

rest_fetch_balance_result(d, batch) ==
    LET not_zero == rest_balances_not_zero(batch)
        updated == update_balances(d, not_zero)
        keep == {not_zero[i].symbol : i \in 1..Len(not_zero)}
    IN  [s \in (DOMAIN updated) \cap keep |-> updated[s]]

update_rest_response_for_fetch_balance(batch) ==
    /\ call = Idle
    /\ balances' = rest_fetch_balance_result(balances, batch)
    /\ call' = [op |-> "update_rest_response_for_fetch_balance", arg |-> batch, before |-> balances]
    /\ UNCHANGED <<bbo_vars, position_vars, ohlcv_vars, trade_vars, fill_vars, order_vars, options, session_vars>>

-----------------------------------------------------------------------------
(* OHLCV cache.                                                            *)

OhlcvSymbols == {"BTC"}
\* close prices that tell two candles of one bucket apart
ClosePrices == {1, 2}

OhlcvValues ==
    [symbol : OhlcvSymbols,
     start_unix_timestamp_seconds : 0..MaxBucket,
     close_price : ClosePrices]

\* a response or a push lists a bucket at most once
OhlcvBatches ==
    {batch \in Batches(OhlcvValues) :
        \A i, j \in 1..Len(batch) :
            i # j => batch[i].start_unix_timestamp_seconds # batch[j].start_unix_timestamp_seconds}

\* the fetch window the session was constructed with
fetch_historical_ohlcv_start_unix_timestamp_seconds == Some(1)
fetch_historical_ohlcv_end_unix_timestamp_seconds == Some(MaxBucket)

ohlcv_key(x) == <<x.start_unix_timestamp_seconds>>

ohlcv_in_fetch_window(x) ==
    /\ \/ fetch_historical_ohlcv_start_unix_timestamp_seconds = None
       \/ x.start_unix_timestamp_seconds >= Val(fetch_historical_ohlcv_start_unix_timestamp_seconds)
    /\ \/ fetch_historical_ohlcv_end_unix_timestamp_seconds = None
       \/ x.start_unix_timestamp_seconds < Val(fetch_historical_ohlcv_end_unix_timestamp_seconds)

\* the cache after Exchange.update_rest_response_for_historical_ohlcv
historical_ohlcv_result(d, historical_ohlcvs) ==
    IF historical_ohlcvs = <<>> THEN d
    ELSE LET symbol == historical_ohlcvs[1].symbol
             historical_ohlcvs_filtered == SelectSeq(historical_ohlcvs, ohlcv_in_fetch_window)
             historical_ohlcvs_sorted == sorted(historical_ohlcvs_filtered, ohlcv_key)
         IN  IF DictGet(d, symbol) = <<>>
             THEN DictSet(d, symbol, historical_ohlcvs_sorted)
             ELSE LET head == d[symbol][1]
                      earlier(x) == x.start_unix_timestamp_seconds < head.start_unix_timestamp_seconds
                  IN  DictSet(d, symbol, SelectSeq(historical_ohlcvs_sorted, earlier) \o d[symbol])

\* push_ohlcv_result appending the candles not earlier than the tail
push_ohlcv_result_not_strict(d, batch) ==
    IF batch = <<>> THEN d
    ELSE LET symbol == batch[1].symbol
             ohlcvs_sorted == sorted(batch, ohlcv_key)
         IN  IF DictGet(d, symbol) = <<>>
             THEN DictSet(d, symbol, ohlcvs_sorted)
             ELSE LET stored == d[symbol]
                      tail == stored[Len(stored)]
                      replaced ==
                          IF tail.start_unix_timestamp_seconds = ohlcvs_sorted[1].start_unix_timestamp_seconds
                          THEN [stored EXCEPT ![Len(stored)] = ohlcvs_sorted[1]]
                          ELSE stored
                      later(x) == x.start_unix_timestamp_seconds >= tail.start_unix_timestamp_seconds
                  IN  DictSet(d, symbol, replaced \o SelectSeq(ohlcvs_sorted, later))

\* the cache after Exchange.update_websocket_push_data_for_ohlcv
push_ohlcv_result(d, batch) ==
    IF batch = <<>> THEN d
    ELSE LET symbol == batch[1].symbol
             ohlcvs_sorted == sorted(batch, ohlcv_key)
         IN  IF DictGet(d, symbol) = <<>>
             THEN DictSet(d, symbol, ohlcvs_sorted)
             ELSE LET stored == d[symbol]
                      tail == stored[Len(stored)]
                      replaced ==
                          IF tail.start_unix_timestamp_seconds = ohlcvs_sorted[1].start_unix_timestamp_seconds
                          THEN [stored EXCEPT ![Len(stored)] = ohlcvs_sorted[1]]
                          ELSE stored
                      later(x) == x.start_unix_timestamp_seconds > tail.start_unix_timestamp_seconds
                  IN  DictSet(d, symbol, replaced \o SelectSeq(ohlcvs_sorted, later))

\* history: the last stream update seen for each bucket
RECURSIVE note_ohlcvs(_, _)
note_ohlcvs(seen, batch) ==
    IF batch = <<>> THEN seen
    ELSE note_ohlcvs(DictSet(seen, <<Head(batch).symbol, Head(batch).start_unix_timestamp_seconds>>, Head(batch)),
                     Tail(batch))

\* Exchange.update_rest_response_for_historical_ohlcv
update_rest_response_for_historical_ohlcv(historical_ohlcvs) ==
    /\ call = Idle
    /\ ohlcvs' = historical_ohlcv_result(ohlcvs, historical_ohlcvs)
    /\ call' = [op |-> "update_rest_response_for_historical_ohlcv", arg |-> historical_ohlcvs, before |-> ohlcvs]
    /\ UNCHANGED <<bbo_vars, position_vars, seen_ohlcvs, trade_vars, fill_vars, order_vars, options, balance_vars, session_vars>>

\* Exchange.update_websocket_push_data_for_ohlcv
update_websocket_push_data_for_ohlcv(batch) ==
    /\ call = Idle
    /\ ohlcvs' = push_ohlcv_result(ohlcvs, batch)
    /\ seen_ohlcvs' = note_ohlcvs(seen_ohlcvs, batch)
    /\ call' = [op |-> "update_websocket_push_data_for_ohlcv", arg |-> batch, before |-> ohlcvs]
    /\ UNCHANGED <<bbo_vars, position_vars, trade_vars, fill_vars, order_vars, options, balance_vars, session_vars>>

-----------------------------------------------------------------------------
(* Trade and fill caches.                                                  *)

TradeSymbols == {"BTC"}

\* venue trade ids are strings of digits; int(trade_id) is their number
TradeIds == {"9", "10"}
int(trade_id) == CASE trade_id = "9" -> 9 [] trade_id = "10" -> 10

\* a time point is a tuple (seconds, nanoseconds); venue times are whole seconds here
TimePoints == (0..MaxSec) \X {0}

\* the trades an adapter builds: it stamps every one with its venue's id kind
TradeValues(is_trade_id_monotonic_increase) ==
    [symbol : TradeSymbols,
     exchange_update_time_point : TimePoints,
     trade_id : TradeIds,
     is_trade_id_monotonic_increase : {is_trade_id_monotonic_increase}]

\* a response or a push lists a trade id at most once
TradeBatches(is_trade_id_monotonic_increase) ==
    {batch \in Batches(TradeValues(is_trade_id_monotonic_increase)) :
        \A i, j \in 1..Len(batch) : i # j => batch[i].trade_id # batch[j].trade_id}

\* Trade.trade_id_as_int, Fill.trade_id_as_int
trade_id_as_int(x) ==
    IF x.trade_id # "" /\ x.is_trade_id_monotonic_increase THEN int(x.trade_id) ELSE 0

\* key=lambda x: (x.exchange_update_time_point, x.trade_id_as_int)
trade_key(x) == <<x.exchange_update_time_point[1], x.exchange_update_time_point[2], trade_id_as_int(x)>>

\* the fetch windows the session was constructed with
fetch_historical_trade_start_unix_timestamp_seconds == Some(1)
fetch_historical_trade_end_unix_timestamp_seconds == Some(MaxSec)
fetch_historical_fill_start_unix_timestamp_seconds == Some(1)
fetch_historical_fill_end_unix_timestamp_seconds == Some(MaxSec)

trade_in_fetch_window(x) ==
    /\ \/ fetch_historical_trade_start_unix_timestamp_seconds = None
       \/ x.exchange_update_time_point[1] >= Val(fetch_historical_trade_start_unix_timestamp_seconds)
    /\ \/ fetch_historical_trade_end_unix_timestamp_seconds = None
       \/ x.exchange_update_time_point[1] < Val(fetch_historical_trade_end_unix_timestamp_seconds)

fill_in_fetch_window(x) ==
    /\ \/ fetch_historical_fill_start_unix_timestamp_seconds = None
       \/ x.exchange_update_time_point[1] >= Val(fetch_historical_fill_start_unix_timestamp_seconds)
    /\ \/ fetch_historical_fill_end_unix_timestamp_seconds = None
       \/ x.exchange_update_time_point[1] < Val(fetch_historical_fill_end_unix_timestamp_seconds)

\* historical_trade_result without the fetch window
historical_trade_result_no_window(d, historical_trades) ==
    IF historical_trades = <<>> THEN d
    ELSE LET symbol == historical_trades[1].symbol
             historical_trades_filtered == historical_trades
             historical_trades_sorted == sorted(historical_trades_filtered, trade_key)
         IN  IF DictGet(d, symbol) = <<>>
             THEN DictSet(d, symbol, historical_trades_sorted)
             ELSE LET head == d[symbol][1]
                      earlier(x) == tuple_less(trade_key(x), trade_key(head))
                  IN  DictSet(d, symbol, SelectSeq(historical_trades_sorted, earlier) \o d[symbol])

\* the cache after Exchange.update_rest_response_for_historical_trade
historical_trade_result(d, historical_trades) ==
    IF historical_trades = <<>> THEN d
    ELSE LET symbol == historical_trades[1].symbol
             historical_trades_filtered == SelectSeq(historical_trades, trade_in_fetch_window)
             historical_trades_sorted == sorted(historical_trades_filtered, trade_key)
         IN  IF DictGet(d, symbol) = <<>>
             THEN DictSet(d, symbol, historical_trades_sorted)
             ELSE LET head == d[symbol][1]
                      earlier(x) == tuple_less(trade_key(x), trade_key(head))
                  IN  DictSet(d, symbol, SelectSeq(historical_trades_sorted, earlier) \o d[symbol])

\* the cache after Exchange.update_rest_response_for_historical_fill
historical_fill_result(d, historical_fills) ==
    IF historical_fills = <<>> THEN d
    ELSE LET symbol == historical_fills[1].symbol
             historical_fills_filtered == SelectSeq(historical_fills, fill_in_fetch_window)
             historical_fills_sorted == sorted(historical_fills_filtered, trade_key)
         IN  IF DictGet(d, symbol) = <<>>
             THEN DictSet(d, symbol, historical_fills_sorted)
             ELSE LET head == d[symbol][1]
                      earlier(x) == tuple_less(trade_key(x), trade_key(head))
                  IN  DictSet(d, symbol, SelectSeq(historical_fills_sorted, earlier) \o d[symbol])

\* push_trade_result appending the trades not earlier than the tail
push_trade_result_not_strict(d, batch) ==
    IF batch = <<>> THEN d
    ELSE LET symbol == batch[1].symbol
             trades_sorted == sorted(batch, trade_key)
         IN  IF DictGet(d, symbol) = <<>>
             THEN DictSet(d, symbol, trades_sorted)
             ELSE LET tail == d[symbol][Len(d[symbol])]
                      later(x) == ~tuple_less(trade_key(x), trade_key(tail))
                  IN  DictSet(d, symbol, d[symbol] \o SelectSeq(trades_sorted, later))

\* the cache after Exchange.update_websocket_push_data_for_trade
push_trade_result(d, batch) ==
    IF batch = <<>> THEN d
    ELSE LET symbol == batch[1].symbol
             trades_sorted == sorted(batch, trade_key)
         IN  IF DictGet(d, symbol) = <<>>
             THEN DictSet(d, symbol, trades_sorted)
             ELSE LET tail == d[symbol][Len(d[symbol])]
                      later(x) == tuple_less(trade_key(tail), trade_key(x))
                  IN  DictSet(d, symbol, d[symbol] \o SelectSeq(trades_sorted, later))

\* the cache after Exchange.update_websocket_push_data_for_fill
push_fill_result(d, batch) ==
    IF batch = <<>> THEN d
    ELSE LET symbol == batch[1].symbol
             fills_sorted == sorted(batch, trade_key)
         IN  IF DictGet(d, symbol) = <<>>
             THEN DictSet(d, symbol, fills_sorted)
             ELSE LET tail == d[symbol][Len(d[symbol])]
                      later(x) == tuple_less(trade_key(tail), trade_key(x))
                  IN  DictSet(d, symbol, d[symbol] \o SelectSeq(fills_sorted, later))

\* Exchange.update_rest_response_for_historical_trade
update_rest_response_for_historical_trade(historical_trades) ==
    /\ call = Idle
    /\ options.subscribe_trade
    /\ trades' = historical_trade_result(trades, historical_trades)
    /\ call' = [op |-> "update_rest_response_for_historical_trade", arg |-> historical_trades, before |-> trades]
    /\ UNCHANGED <<bbo_vars, position_vars, ohlcv_vars, fill_vars, order_vars, options, balance_vars, session_vars>>

\* Exchange.update_websocket_push_data_for_trade
update_websocket_push_data_for_trade(batch) ==
    /\ call = Idle
    /\ options.subscribe_trade
    /\ trades' = push_trade_result(trades, batch)
    /\ call' = [op |-> "update_websocket_push_data_for_trade", arg |-> batch, before |-> trades]
    /\ UNCHANGED <<bbo_vars, position_vars, ohlcv_vars, fill_vars, order_vars, options, balance_vars, session_vars>>

\* Exchange.update_rest_response_for_historical_fill
update_rest_response_for_historical_fill(historical_fills) ==
    /\ call = Idle
    /\ options.subscribe_fill
    /\ fills' = historical_fill_result(fills, historical_fills)
    /\ call' = [op |-> "update_rest_response_for_historical_fill", arg |-> historical_fills, before |-> fills]
    /\ UNCHANGED <<bbo_vars, position_vars, ohlcv_vars, trade_vars, order_vars, options, balance_vars, session_vars>>

\* Exchange.update_websocket_push_data_for_fill
update_websocket_push_data_for_fill(batch) ==
    /\ call = Idle
    /\ options.subscribe_fill
    /\ fills' = push_fill_result(fills, batch)
    /\ call' = [op |-> "update_websocket_push_data_for_fill", arg |-> batch, before |-> fills]
    /\ UNCHANGED <<bbo_vars, position_vars, ohlcv_vars, trade_vars, order_vars, options, balance_vars, session_vars>>

-----------------------------------------------------------------------------
(* Orders.                                                                 *)

\* OrderStatus
CREATE_IN_FLIGHT == 1
CANCEL_IN_FLIGHT == 2
CREATE_ACKNOWLEDGED == 3
CANCEL_ACKNOWLEDGED == 4
UNTRIGGERED == 5
\* NEW (a reserved word of TLA+)
NEW_ == 6
PARTIALLY_FILLED == 7
FILLED == 8
CANCELED == 9
EXPIRED == 10
REJECTED == 11

\* Order.is_in_flight, is_open, is_closed, is_eligible_to_cancel
is_in_flight(order) == Val(order.status) <= CANCEL_IN_FLIGHT
is_open(order) == Val(order.status) >= CREATE_ACKNOWLEDGED /\ Val(order.status) <= PARTIALLY_FILLED
is_closed(order) == Val(order.status) >= FILLED
is_eligible_to_cancel_any_open(order) == ~is_in_flight(order) /\ is_open(order)
is_eligible_to_cancel(order) ==
    ~is_in_flight(order) /\ order.status # Some(CANCEL_ACKNOWLEDGED) /\ is_open(order)

\* time_point_now() as stored in local_update_time_point: a reading of the
\* local clock; the model does not tell two readings apart
time_point_now == "local"

\* unix_timestamp_seconds_now(): the local clock stands at this second
unix_timestamp_seconds_now == 1

\* Exchange.margin_asset and all_instrument_information[symbol].margin_asset
session_margin_asset == None
instrument_margin_asset(symbol) == Some("USDT")

\* a or b on optional values
Or(a, b) == IF a # None THEN a ELSE b

\* dataclasses.replace(order, **kwargs)
dataclasses_replace(order, kwargs) ==
    [f \in DOMAIN order |-> IF f \in DOMAIN kwargs THEN kwargs[f] ELSE order[f]]

\* get_order looking for the order id before the client order id
get_order_by_order_id_first(d, symbol, order_id, client_order_id) ==
    LET orders_for_symbol == DictGet(d, symbol)
        matches(order) ==
            IF order_id # None /\ order_id # Some("")
            THEN order.order_id = order_id
            ELSE order.client_order_id = client_order_id
        found == {i \in 1..Len(orders_for_symbol) : matches(orders_for_symbol[i])}
    IN  IF found = {} THEN 0 ELSE CHOOSE i \in found : \A j \in found : i <= j

\* Exchange.get_order: the index of the first match, 0 for None
get_order(d, symbol, order_id, client_order_id) ==
    LET orders_for_symbol == DictGet(d, symbol)
        matches(order) ==
            IF client_order_id # None /\ client_order_id # Some("")
            THEN order.client_order_id = client_order_id
            ELSE order.order_id = order_id
        found == {i \in 1..Len(orders_for_symbol) : matches(orders_for_symbol[i])}
    IN  IF found = {} THEN 0 ELSE CHOOSE i \in found : \A j \in found : i <= j

\* the keys of a dict, in insertion order, after the keys of symbols were set
\* one after the other
RECURSIVE dict_keys_after(_, _)
dict_keys_after(keys, symbols) ==
    IF symbols = <<>> THEN keys
    ELSE IF \E i \in 1..Len(keys) : keys[i] = Head(symbols)
         THEN dict_keys_after(keys, Tail(symbols))
         ELSE dict_keys_after(Append(keys, Head(symbols)), Tail(symbols))

\* Exchange.append_order
append_order(d, order) == DictSet(d, order.symbol, DictGet(d, order.symbol) \o <<order>>)

\* Exchange.replace_order
replace_order(d, symbol, order_id, client_order_id, kwargs) ==
    LET index == get_order(d, symbol, order_id, client_order_id)
    IN  IF index # 0
        THEN [d EXCEPT ![symbol][index] = dataclasses_replace(d[symbol][index], kwargs)]
        ELSE d

\* Decimal(a) > Decimal(b)
decimal_greater(a, b) == DecimalOf(a) > DecimalOf(b)

\* has_fill without the comparison of the quantities
has_fill_any_quantity(order_to_update, order) ==
    order.cumulative_filled_quantity # None

\* has_fill of Exchange.update_order
has_fill(order_to_update, order) ==
    /\ order.cumulative_filled_quantity # None
    /\ \/ order_to_update.cumulative_filled_quantity = None
       \/ decimal_greater(Val(order.cumulative_filled_quantity), Val(order_to_update.cumulative_filled_quantity))

\* update_order_merges merging every record
update_order_merges_always(order_to_update, order) ==
    TRUE

\* update_order_merges taking every timestamp for a later one
update_order_merges_any_timestamp(order_to_update, order) ==
    \/ order.exchange_update_time_point # None
    \/ /\ order.status # None
       /\ \/ order_to_update.status = None
          \/ Val(order.status) > Val(order_to_update.status)
    \/ has_fill(order_to_update, order)

\* the condition under which Exchange.update_order merges order into order_to_update
update_order_merges(order_to_update, order) ==
    \/ /\ order.exchange_update_time_point # None
       /\ \/ order_to_update.exchange_update_time_point = None
          \/ Val(order.exchange_update_time_point) > Val(order_to_update.exchange_update_time_point)
    \/ /\ order.status # None
       /\ \/ order_to_update.status = None
          \/ Val(order.status) > Val(order_to_update.status)
    \/ has_fill(order_to_update, order)

\* update_order_merged storing the incoming order as it came
update_order_merged_as_incoming(order_to_update, order) ==
    [f \in DOMAIN order_to_update |->
        IF f = "local_update_time_point" THEN Some(time_point_now) ELSE order[f]]

\* the order Exchange.update_order stores when it merges: the fields of the
\* Order it constructs (an order of the model carries the fields that the
\* specification it is used in looks at)
update_order_merged(order_to_update, order) ==
    [f \in DOMAIN order_to_update |->
        CASE f = "exchange_update_time_point" -> order.exchange_update_time_point
          [] f \in {"order_id", "price", "quantity"} ->
                IF order[f] # None /\ order[f] # order_to_update[f] THEN order[f] ELSE order_to_update[f]
          [] f = "margin_asset" ->
                Or(order_to_update.margin_asset,
                   Or(session_margin_asset, instrument_margin_asset(order_to_update.symbol)))
          [] f \in {"cumulative_filled_quantity", "cumulative_filled_quote_quantity"} ->
                IF has_fill(order_to_update, order) THEN order[f] ELSE order_to_update[f]
          [] f = "exchange_create_time_point" ->
                IF order_to_update[f] = None /\ order[f] # None THEN order[f] ELSE order_to_update[f]
          [] f = "local_update_time_point" ->
                IF order.local_update_time_point # None
                THEN order.local_update_time_point ELSE Some(time_point_now)
          [] f = "status" -> order.status
          [] OTHER -> order_to_update[f]]

\* Exchange.update_order
update_order(d, order) ==
    LET index == get_order(d, order.symbol, order.order_id, order.client_order_id)
    IN  IF index # 0
        THEN IF update_order_merges(d[order.symbol][index], order)
             THEN [d EXCEPT ![order.symbol][index] = update_order_merged(d[order.symbol][index], order)]
             ELSE d
        ELSE append_order(d, dataclasses_replace(order, [local_update_time_point |-> Some(time_point_now)]))

\* for order in orders: self.update_order(order=order)
RECURSIVE update_orders(_, _)
update_orders(d, batch) ==
    IF batch = <<>> THEN d
    ELSE update_orders(update_order(d, Head(batch)), Tail(batch))

\* str(n).zfill(width)
RECURSIVE zfill(_, _)
zfill(string, width) == IF Len(string) >= width THEN string ELSE zfill("0" \o string, width)

\* Exchange.client_order_id_sequence_number_padding_length
client_order_id_sequence_number_padding_length == 3

\* Exchange.generate_next_client_order_id called when the clock stands at
\* unix_timestamp_seconds, on a session constructed with padding_length: the
\* fields it leaves and the id it returns
generate_next_client_order_id_at(unix_timestamp_seconds, padding_length) ==
    LET sequence_number ==
            IF last_client_order_id_unix_timestamp_seconds # Some(unix_timestamp_seconds)
            THEN 0 ELSE Val(last_client_order_id_sequence_number) + 1
        client_order_id_sequence_number_suffix == zfill(ToString(sequence_number), padding_length)
    IN  [last_client_order_id_unix_timestamp_seconds |-> unix_timestamp_seconds,
         last_client_order_id_sequence_number |-> sequence_number,
         client_order_id_sequence_number_suffix |-> client_order_id_sequence_number_suffix,
         client_order_id |-> ToString(unix_timestamp_seconds) \o client_order_id_sequence_number_suffix]

\* the sequence number Exchange.generate_next_client_order_id moves to
next_client_order_id_sequence_number ==
    generate_next_client_order_id_at(unix_timestamp_seconds_now, client_order_id_sequence_number_padding_length)
        .last_client_order_id_sequence_number

\* the id Exchange.generate_next_client_order_id returns
generate_next_client_order_id ==
    generate_next_client_order_id_at(unix_timestamp_seconds_now, client_order_id_sequence_number_padding_length)
        .client_order_id

\* the most calls of generate_next_client_order_id within one second
MaxSequenceNumber == 1000

\* Exchange.generate_next_client_order_id, called by a strategy that makes
\* its own ids, when the local clock stands at unix_timestamp_seconds
generate_next_client_order_id_called(unix_timestamp_seconds) ==
    LET next == generate_next_client_order_id_at(unix_timestamp_seconds,
                                                 options.client_order_id_sequence_number_padding_length)
    IN  /\ call = Idle
        /\ last_client_order_id_unix_timestamp_seconds # None
               => unix_timestamp_seconds >= Val(last_client_order_id_unix_timestamp_seconds)
        /\ next.last_client_order_id_sequence_number <= MaxSequenceNumber
        /\ last_client_order_id_unix_timestamp_seconds' = Some(next.last_client_order_id_unix_timestamp_seconds)
        /\ last_client_order_id_sequence_number' = Some(next.last_client_order_id_sequence_number)
        /\ call' = [op |-> "generate_next_client_order_id", arg |-> unix_timestamp_seconds,
                    before |-> [last_client_order_id_unix_timestamp_seconds |->
                                    last_client_order_id_unix_timestamp_seconds,
                                last_client_order_id_sequence_number |-> last_client_order_id_sequence_number],
                    client_order_id_sequence_number_suffix |-> next.client_order_id_sequence_number_suffix,
                    result |-> next.client_order_id]
        /\ UNCHANGED <<bbo_vars, position_vars, ohlcv_vars, trade_vars, fill_vars, orders, order_symbols,
                       cancel_orders_task, options, balance_vars, session_vars>>

\* create_order_ensure_client_order_id leaving the status as the caller gave it
create_order_ensure_client_order_id_no_status(order) ==
    LET now_time_point == IF order.local_update_time_point # None
                          THEN order.local_update_time_point ELSE Some(time_point_now)
    IN  IF order.client_order_id = None
        THEN dataclasses_replace(order, [local_update_time_point |-> now_time_point,
                                         client_order_id |-> Some(generate_next_client_order_id)])
        ELSE dataclasses_replace(order, [local_update_time_point |-> now_time_point])

\* Exchange.create_order_ensure_client_order_id
create_order_ensure_client_order_id(order) ==
    LET now_time_point == IF order.local_update_time_point # None
                          THEN order.local_update_time_point ELSE Some(time_point_now)
    IN  IF order.client_order_id = None
        THEN dataclasses_replace(order, [local_update_time_point |-> now_time_point,
                                         status |-> Some(CREATE_IN_FLIGHT),
                                         client_order_id |-> Some(generate_next_client_order_id)])
        ELSE dataclasses_replace(order, [local_update_time_point |-> now_time_point,
                                         status |-> Some(CREATE_IN_FLIGHT)])

\* the number of orders in the cache
OrderCount(d) ==
    LET RECURSIVE count(_)
        count(S) == IF S = {} THEN 0
                    ELSE LET s == CHOOSE x \in S : TRUE IN Len(d[s]) + count(S \ {s})
    IN  count(DOMAIN d)

\* ApiMethod
REST == "rest"
WEBSOCKET == "websocket"

\* Okx.__init__: the trade requests of the stream go to the account endpoint
websocket_account_trade_url_with_query_params == "account"

\* the variant that does not look at the logged-in set
order_request_api_method_any_connection(trade_api_method_preference) ==
    IF \/ /\ trade_api_method_preference = None
          /\ options.trade_api_method_preference = None \/ options.trade_api_method_preference = Some(REST)
       \/ trade_api_method_preference = Some(REST)
    THEN REST
    ELSE WEBSOCKET

\* create_order and cancel_order: the condition that sends the request with
\* send_rest_request or with send_websocket_request
order_request_api_method(trade_api_method_preference) ==
    IF \/ /\ trade_api_method_preference = None
          /\ options.trade_api_method_preference = None \/ options.trade_api_method_preference = Some(REST)
       \/ trade_api_method_preference = Some(REST)
       \/ websocket_account_trade_url_with_query_params \notin websocket_logged_in_connections
    THEN REST
    ELSE WEBSOCKET

\* Exchange.create_order, up to its first await (the request is sent there)
create_order(order, trade_api_method_preference) ==
    /\ call = Idle
    /\ OrderCount(orders) < MaxOrders
    /\ orders' = append_order(orders, create_order_ensure_client_order_id(order))
    /\ order_symbols' = dict_keys_after(order_symbols, <<order.symbol>>)
    /\ IF order.client_order_id = None
       THEN /\ last_client_order_id_unix_timestamp_seconds' = Some(unix_timestamp_seconds_now)
            /\ last_client_order_id_sequence_number' = Some(next_client_order_id_sequence_number)
       ELSE UNCHANGED client_order_id_vars
    /\ call' = [op |-> "create_order", arg |-> order, before |-> orders,
                trade_api_method_preference |-> trade_api_method_preference,
                api_method |-> order_request_api_method(trade_api_method_preference)]
    /\ UNCHANGED <<bbo_vars, position_vars, ohlcv_vars, trade_vars, fill_vars, cancel_orders_task, options, balance_vars, session_vars>>

\* Exchange.cancel_order, up to its first await (the request is sent there)
cancel_order(symbol, order_id, client_order_id, trade_api_method_preference) ==
    /\ call = Idle
    /\ orders' = replace_order(orders, symbol, order_id, client_order_id,
                               [local_update_time_point |-> Some(time_point_now), status |-> Some(CANCEL_IN_FLIGHT)])
    /\ call' = [op |-> "cancel_order",
                arg |-> [symbol |-> symbol, order_id |-> order_id, client_order_id |-> client_order_id],
                before |-> orders,
                trade_api_method_preference |-> trade_api_method_preference,
                api_method |-> order_request_api_method(trade_api_method_preference)]
    /\ UNCHANGED <<bbo_vars, position_vars, ohlcv_vars, trade_vars, fill_vars, order_symbols, cancel_orders_task,
                   client_order_id_vars, options, balance_vars, session_vars>>

\* Python's not, of an optional collection
not(o) == o = None \/ Val(o) = {}

\* Exchange.cancel_orders_filter_order; order_ids and client_order_ids are
\* None or a set of optional ids, margin_asset is None or an asset
cancel_orders_filter_order(order, order_ids, client_order_ids, margin_asset) ==
    /\ not(order_ids) \/ order.order_id \in Val(order_ids)
    /\ not(client_order_ids) \/ order.client_order_id \in Val(client_order_ids)
    /\ margin_asset = None \/ order.margin_asset = margin_asset

\* The loops of Exchange.cancel_orders from where task stands to the next
\* order they cancel, or to their end.  task.keys are the symbols still to
\* go, the first being the current one; task.index is the next position in
\* the current symbol's list; task.size is the size the dict had when the
\* iteration over it began, None when the call names a symbol.  A dict
\* iterator that finds the size changed raises RuntimeError, which ends the call.
RECURSIVE cancel_orders_loop(_, _)
cancel_orders_loop(d, task) ==
    IF task.keys = <<>>
    THEN [dispatch |-> None, task |-> None, raised |-> FALSE]
    ELSE LET symbol == Head(task.keys)
             orders_for_symbol == DictGet(d, symbol)
         IN  IF task.index > Len(orders_for_symbol)
             THEN IF task.size # None /\ Cardinality(DOMAIN d) # Val(task.size)
                  THEN [dispatch |-> None, task |-> None, raised |-> TRUE]
                  ELSE cancel_orders_loop(d, [task EXCEPT !.keys = Tail(@), !.index = 1])
             ELSE IF /\ is_eligible_to_cancel(orders_for_symbol[task.index])
                     /\ cancel_orders_filter_order(orders_for_symbol[task.index], task.order_ids,
                                                   task.client_order_ids, task.margin_asset)
                  THEN [dispatch |-> Some(<<symbol, task.index>>),
                        task |-> Some([task EXCEPT !.index = @ + 1]),
                        raised |-> FALSE]
                  ELSE cancel_orders_loop(d, [task EXCEPT !.index = @ + 1])

\* cancel_orders runs from where task stands to its next await, which is the
\* first await of the cancel_order it calls, or to its end
cancel_orders_run(op, task) ==
    LET run == cancel_orders_loop(orders, task)
        order == orders[Val(run.dispatch)[1]][Val(run.dispatch)[2]]
    IN  /\ call = Idle
        /\ orders' = IF run.dispatch # None
                     THEN replace_order(orders, order.symbol, order.order_id, order.client_order_id,
                                        [local_update_time_point |-> Some(time_point_now),
                                         status |-> Some(CANCEL_IN_FLIGHT)])
                     ELSE orders
        /\ cancel_orders_task' = run.task
        /\ call' = [op |-> op, arg |-> task, before |-> orders, dispatch |-> run.dispatch, raised |-> run.raised]
        /\ UNCHANGED <<bbo_vars, position_vars, ohlcv_vars, trade_vars, fill_vars, order_symbols,
                       client_order_id_vars, options, balance_vars, session_vars>>

\* Exchange.cancel_orders, up to its first await
cancel_orders(symbol, order_ids, client_order_ids, margin_asset) ==
    /\ cancel_orders_task = None
    /\ cancel_orders_run("cancel_orders",
          [symbol |-> symbol, order_ids |-> order_ids, client_order_ids |-> client_order_ids,
           margin_asset |-> margin_asset,
           keys |-> IF symbol # None
                    THEN IF Val(symbol) \in DOMAIN orders THEN <<Val(symbol)>> ELSE <<>>
                    ELSE order_symbols,
           index |-> 1,
           size |-> IF symbol # None THEN None ELSE Some(Cardinality(DOMAIN orders))])

\* Exchange.cancel_orders, from the return of the cancel_order it awaited to
\* its next await
cancel_orders_resume ==
    /\ cancel_orders_task # None
    /\ cancel_orders_run("cancel_orders_resume", Val(cancel_orders_task))

\* a handler that feeds the orders of a response or a push to update_order
update_orders_handler(op, batch) ==
    /\ call = Idle
    /\ orders' = update_orders(orders, batch)
    /\ order_symbols' = dict_keys_after(order_symbols, [i \in 1..Len(batch) |-> batch[i].symbol])
    /\ call' = [op |-> op, arg |-> batch, before |-> orders]
    /\ UNCHANGED <<bbo_vars, position_vars, ohlcv_vars, trade_vars, fill_vars, cancel_orders_task,
                   client_order_id_vars, options, balance_vars, session_vars>>

\* Exchange.update_rest_response_for_create_order
update_rest_response_for_create_order(order) ==
    update_orders_handler("update_rest_response_for_create_order", <<order>>)

\* Exchange.update_rest_response_for_cancel_order
update_rest_response_for_cancel_order(order) ==
    update_orders_handler("update_rest_response_for_cancel_order", <<order>>)

\* Exchange.update_rest_response_for_fetch_order
update_rest_response_for_fetch_order(order) ==
    update_orders_handler("update_rest_response_for_fetch_order", <<order>>)

\* Exchange.update_rest_response_for_fetch_open_order
update_rest_response_for_fetch_open_order(open_orders) ==
    update_orders_handler("update_rest_response_for_fetch_open_order", open_orders)

\* Exchange.update_rest_response_for_historical_order
update_rest_response_for_historical_order(historical_orders) ==
    update_orders_handler("update_rest_response_for_historical_order", historical_orders)

\* Exchange.update_websocket_push_data_for_order
update_websocket_push_data_for_order(batch) ==
    update_orders_handler("update_websocket_push_data_for_order", batch)

\* Okx.handle_rest_response_for_error on a fetch_order response saying that
\* the order does not exist; now is what the local clock reads on the venue's
\* time scale
handle_rest_response_for_error(symbol, order_id, client_order_id, now) ==
    /\ call = Idle
    /\ orders' = replace_order(orders, symbol, order_id, client_order_id,
                               [exchange_update_time_point |-> Some(now), status |-> Some(REJECTED)])
    /\ call' = [op |-> "handle_rest_response_for_error",
                arg |-> [symbol |-> symbol, order_id |-> order_id, client_order_id |-> client_order_id],
                before |-> orders]
    /\ UNCHANGED <<bbo_vars, position_vars, ohlcv_vars, trade_vars, fill_vars, order_symbols, cancel_orders_task,
                   client_order_id_vars, options, balance_vars, session_vars>>

\* The orders of the model.  The venue knows the order with client order id
\* "1000" under the order id "o1".
OrderSymbols == {"BTC"}
ClientOrderIds == {"1000"}
OrderIds == {"o1"}

\* the orders a caller hands to create_order
OrdersToCreate ==
    [symbol : OrderSymbols,
     exchange_update_time_point : {None},
     order_id : {None},
     client_order_id : {None} \cup {Some(c) : c \in ClientOrderIds},
     margin_asset : {None},
     cumulative_filled_quantity : {None},
     local_update_time_point : {None},
     status : {None}]

\* the ids a caller names in cancel_order, and a request in its parameters:
\* the client order id, with or without the order id
RequestIds ==
    {ids \in [order_id : {None} \cup {Some(o) : o \in OrderIds},
              client_order_id : {None} \cup {Some(c) : c \in ClientOrderIds}] :
        ids.client_order_id # None}

\* what the adapters build from create and cancel responses
CreateOrderResponses ==
    [symbol : OrderSymbols,
     exchange_update_time_point : {Some(t) : t \in 1..MaxT},
     order_id : {Some(o) : o \in OrderIds},
     client_order_id : {Some(c) : c \in ClientOrderIds},
     margin_asset : {None},
     cumulative_filled_quantity : {None},
     local_update_time_point : {None},
     status : {Some(CREATE_ACKNOWLEDGED)}]

CancelOrderResponses ==
    {order \in [symbol : OrderSymbols,
                exchange_update_time_point : {Some(t) : t \in 1..MaxT},
                order_id : {None} \cup {Some(o) : o \in OrderIds},
                client_order_id : {None} \cup {Some(c) : c \in ClientOrderIds},
                margin_asset : {None},
                cumulative_filled_quantity : {None},
                local_update_time_point : {None},
                status : {Some(CANCEL_ACKNOWLEDGED)}] :
        order.client_order_id # None}

\* what the adapters build from the venue's order records
VenueStatuses == {UNTRIGGERED, NEW_, PARTIALLY_FILLED, FILLED, CANCELED}
FilledQuantities == {"0.4", "0.5", "0.50"}

VenueOrders ==
    [symbol : OrderSymbols,
     exchange_update_time_point : {Some(t) : t \in 1..MaxT},
     order_id : {Some(o) : o \in OrderIds},
     client_order_id : {Some(c) : c \in ClientOrderIds},
     margin_asset : {None},
     cumulative_filled_quantity : {None} \cup {Some(q) : q \in FilledQuantities},
     local_update_time_point : {None},
     status : {Some(status) : status \in VenueStatuses}]

\* A cache that cancel_orders walks: on BTC an order that a push announced
\* (no margin asset) and then an order created here, on ETH two orders
\* created here.  An order still in CREATE_IN_FLIGHT, or rejected by the error
\* hook, has no order id yet; every other one was merged from a venue record.
CachedOrder(symbol, client_order_id, order_id, margin_asset, status) ==
    [symbol |-> symbol,
     exchange_update_time_point |-> IF status = CREATE_IN_FLIGHT THEN None ELSE Some(1),
     order_id |-> IF status \in {CREATE_IN_FLIGHT, REJECTED} THEN None ELSE Some(order_id),
     client_order_id |-> Some(client_order_id),
     margin_asset |-> IF status \in {CREATE_IN_FLIGHT, REJECTED} THEN None ELSE margin_asset,
     cumulative_filled_quantity |-> IF status \in {PARTIALLY_FILLED, FILLED} THEN Some("0.5") ELSE None,
     local_update_time_point |-> Some(time_point_now),
     status |-> Some(status)]

OrderStatuses == CREATE_IN_FLIGHT..REJECTED

CancelOrdersCaches ==
    {[symbol \in {"BTC", "ETH"} |->
         IF symbol = "BTC"
         THEN <<CachedOrder("BTC", "1000", "o1", None, a), CachedOrder("BTC", "1001", "o2", Some("USDT"), b)>>
         ELSE <<CachedOrder("ETH", "1002", "o3", Some("USDT"), c), CachedOrder("ETH", "1003", "o4", Some("USDT"), d)>>] :
     a \in {NEW_, PARTIALLY_FILLED, FILLED},
     b \in OrderStatuses,
     c \in {CREATE_IN_FLIGHT, NEW_, CANCEL_ACKNOWLEDGED, CANCELED},
     d \in {UNTRIGGERED, FILLED}}

\* the pushes that arrive while cancel_orders waits: the third order turns
\* NEW or FILLED, and an order of a symbol the cache does not hold yet
CancelOrdersPushes ==
    {[CachedOrder("ETH", "1002", "o3", None, status) EXCEPT
         !.exchange_update_time_point = Some(2), !.local_update_time_point = None] : status \in {NEW_, FILLED}}
    \cup {[CachedOrder("SOL", "1004", "o5", None, NEW_) EXCEPT !.local_update_time_point = None]}

\* what a caller hands to cancel_orders
CancelOrdersSymbols == {None, Some("BTC"), Some("SOL")}
CancelOrdersFilters ==
    {[order_ids |-> None, client_order_ids |-> None, margin_asset |-> None],
     [order_ids |-> Some({}), client_order_ids |-> None, margin_asset |-> None],
     [order_ids |-> Some({Some("o1"), Some("o3")}), client_order_ids |-> None, margin_asset |-> None],
     [order_ids |-> None, client_order_ids |-> Some({Some("1001"), Some("1002")}), margin_asset |-> None],
     [order_ids |-> None, client_order_ids |-> None, margin_asset |-> Some("USDT")],
     [order_ids |-> Some({Some("o2"), Some("o3"), Some("o4")}), client_order_ids |-> None,
      margin_asset |-> Some("USDT")]}

\* a response or a push with at most one order
VenueOrderBatches == {<<>>} \cup {<<order>> : order \in VenueOrders}

-----------------------------------------------------------------------------
(* Specifications.                                                         *)

\* the constructor's option keep_historical_order_seconds, in the seconds of
\* the model
keep_historical_order_seconds == 1

\* the latest local_update_time_point among the closed orders of a symbol,
\* None when it has none
latest_local_update_time_point(orders_for_symbol) ==
    LET closed == {i \in 1..Len(orders_for_symbol) :
                     /\ is_closed(orders_for_symbol[i])
                     /\ orders_for_symbol[i].local_update_time_point # None}
    IN  IF closed = {} THEN None
        ELSE LET i == CHOOSE i \in closed : \A j \in closed :
                          ~tuple_less(Val(orders_for_symbol[i].local_update_time_point),
                                      Val(orders_for_symbol[j].local_update_time_point))
             IN  orders_for_symbol[i].local_update_time_point

\* the variant that sweeps the orders of every status
remove_orders_keeps_any_status(order, earliest_local_update_time_point_to_keep) ==
    /\ order.local_update_time_point # None
    /\ Val(order.local_update_time_point)[1] >= earliest_local_update_time_point_to_keep

\* Exchange.remove_orders: the condition of the list comprehension
remove_orders_keeps(order, earliest_local_update_time_point_to_keep) ==
    \/ ~is_closed(order)
    \/ /\ order.local_update_time_point # None
       /\ Val(order.local_update_time_point)[1] >= earliest_local_update_time_point_to_keep

\* Exchange.remove_orders: the cache after the sweep
remove_orders_result(d) ==
    [symbol \in DOMAIN d |->
        LET orders_for_symbol == d[symbol]
            latest == latest_local_update_time_point(orders_for_symbol)
            keeps(order) == remove_orders_keeps(order, Val(latest)[1] - keep_historical_order_seconds)
        IN  IF orders_for_symbol # <<>> /\ latest # None
            THEN SelectSeq(orders_for_symbol, keeps)
            ELSE orders_for_symbol]

\* Exchange.remove_orders, which has no await
remove_orders ==
    /\ call = Idle
    /\ orders' = remove_orders_result(orders)
    /\ call' = [op |-> "remove_orders", arg |-> None, before |-> orders]
    /\ UNCHANGED <<bbo_vars, position_vars, ohlcv_vars, trade_vars, fill_vars, order_symbols, cancel_orders_task,
                   client_order_id_vars, options, balance_vars, session_vars>>

\* the constructor's options keep_historical_trade_seconds,
\* keep_historical_fill_seconds and keep_historical_ohlcv_seconds, in the
\* seconds of the model
keep_historical_trade_seconds == 1
keep_historical_fill_seconds == 1
keep_historical_ohlcv_seconds == 1

\* the variant of the sweeps that keeps what is strictly later than the bound
remove_keeps_later_only(seconds, earliest_seconds_to_keep) ==
    seconds > earliest_seconds_to_keep

\* Exchange.remove_trades, remove_fills, remove_ohlcvs: the condition of the
\* list comprehension on the seconds of an item
remove_keeps(seconds, earliest_seconds_to_keep) ==
    seconds >= earliest_seconds_to_keep

\* Exchange.remove_trades: the cache after the sweep
remove_trades_result(d) ==
    IF keep_historical_trade_seconds = 0 THEN d
    ELSE [symbol \in DOMAIN d |->
            LET trades_for_symbol == d[symbol]
            IN  IF trades_for_symbol = <<>> THEN trades_for_symbol
                ELSE LET head_exchange_update_time_point == trades_for_symbol[1].exchange_update_time_point[1]
                         earliest_exchange_update_time_point_to_keep ==
                             trades_for_symbol[Len(trades_for_symbol)].exchange_update_time_point[1]
                                 - keep_historical_trade_seconds
                         keeps(x) == remove_keeps(x.exchange_update_time_point[1],
                                                  earliest_exchange_update_time_point_to_keep)
                     IN  IF head_exchange_update_time_point < earliest_exchange_update_time_point_to_keep
                         THEN SelectSeq(trades_for_symbol, keeps)
                         ELSE trades_for_symbol]

\* Exchange.remove_fills: the cache after the sweep
remove_fills_result(d) ==
    IF keep_historical_fill_seconds = 0 THEN d
    ELSE [symbol \in DOMAIN d |->
            LET fills_for_symbol == d[symbol]
            IN  IF fills_for_symbol = <<>> THEN fills_for_symbol
                ELSE LET head_exchange_update_time_point == fills_for_symbol[1].exchange_update_time_point[1]
                         earliest_exchange_update_time_point_to_keep ==
                             fills_for_symbol[Len(fills_for_symbol)].exchange_update_time_point[1]
                                 - keep_historical_fill_seconds
                         keeps(x) == remove_keeps(x.exchange_update_time_point[1],
                                                  earliest_exchange_update_time_point_to_keep)
                     IN  IF head_exchange_update_time_point < earliest_exchange_update_time_point_to_keep
                         THEN SelectSeq(fills_for_symbol, keeps)
                         ELSE fills_for_symbol]

\* Exchange.remove_ohlcvs: the cache after the sweep
remove_ohlcvs_result(d) ==
    IF keep_historical_ohlcv_seconds = 0 THEN d
    ELSE [symbol \in DOMAIN d |->
            LET ohlcvs_for_symbol == d[symbol]
            IN  IF ohlcvs_for_symbol = <<>> THEN ohlcvs_for_symbol
                ELSE LET head_start_unix_timestamp_seconds == ohlcvs_for_symbol[1].start_unix_timestamp_seconds
                         earliest_start_unix_timestamp_seconds_to_keep ==
                             ohlcvs_for_symbol[Len(ohlcvs_for_symbol)].start_unix_timestamp_seconds
                                 - keep_historical_ohlcv_seconds
                         keeps(x) == remove_keeps(x.start_unix_timestamp_seconds,
                                                  earliest_start_unix_timestamp_seconds_to_keep)
                     IN  IF head_start_unix_timestamp_seconds < earliest_start_unix_timestamp_seconds_to_keep
                         THEN SelectSeq(ohlcvs_for_symbol, keeps)
                         ELSE ohlcvs_for_symbol]

\* Exchange.remove_trades, which has no await
remove_trades ==
    /\ call = Idle
    /\ trades' = remove_trades_result(trades)
    /\ call' = [op |-> "remove_trades", arg |-> None, before |-> trades]
    /\ UNCHANGED <<bbo_vars, position_vars, ohlcv_vars, fill_vars, order_vars, options, balance_vars, session_vars>>

\* Exchange.remove_fills, which has no await
remove_fills ==
    /\ call = Idle
    /\ fills' = remove_fills_result(fills)
    /\ call' = [op |-> "remove_fills", arg |-> None, before |-> fills]
    /\ UNCHANGED <<bbo_vars, position_vars, ohlcv_vars, trade_vars, order_vars, options, balance_vars, session_vars>>

\* Exchange.remove_ohlcvs, which has no await
remove_ohlcvs ==
    /\ call = Idle
    /\ ohlcvs' = remove_ohlcvs_result(ohlcvs)
    /\ call' = [op |-> "remove_ohlcvs", arg |-> None, before |-> ohlcvs]
    /\ UNCHANGED <<bbo_vars, position_vars, seen_ohlcvs, trade_vars, fill_vars, order_vars, options, balance_vars,
                   session_vars>>

\* dict.get(k)
dict_get(d, k) == IF k \in DOMAIN d THEN d[k] ELSE None

\* dict.get(k) in S
dict_get_in(d, k, S) == k \in DOMAIN d /\ d[k] \in S

\* a REST response: the request it answers (RestRequest: path, method,
\* json_payload, query_params), the status code and the payload as parsed
RestResponse(rest_request, status_code, json_deserialized_payload) ==
    [rest_request |-> rest_request, status_code |-> status_code,
     json_deserialized_payload |-> json_deserialized_payload]

\* Exchange.is_rest_response_success
is_rest_response_success(rest_response) ==
    rest_response.status_code >= 200 /\ rest_response.status_code < 300

\* Okx.__init__: the paths of the order requests
okx_rest_account_create_order_path == "/api/v5/trade/order"
okx_rest_account_cancel_order_path == "/api/v5/trade/cancel-order"
okx_rest_account_fetch_order_path == "/api/v5/trade/order"

\* Okx.rest_account_create_order_create_rest_request_function, with the keys
\* of account_create_order_create_json_payload that name the order
okx_rest_account_create_order_create_rest_request(order) ==
    [path |-> okx_rest_account_create_order_path, method |-> "POST",
     json_payload |-> Some(DictSet(DictSet(EmptyDict, "instId", order.symbol), "clOrdId", order.client_order_id)),
     query_params |-> None]

\* Okx.rest_account_cancel_order_create_rest_request_function
okx_rest_account_cancel_order_create_rest_request(symbol, order_id, client_order_id) ==
    [path |-> okx_rest_account_cancel_order_path, method |-> "POST",
     json_payload |-> Some(IF order_id # None
                           THEN DictSet(DictSet(EmptyDict, "instId", symbol), "ordId", order_id)
                           ELSE DictSet(DictSet(EmptyDict, "instId", symbol), "clOrdId", client_order_id)),
     query_params |-> None]

\* Okx.rest_account_fetch_order_create_rest_request_function
okx_rest_account_fetch_order_create_rest_request(symbol, order_id, client_order_id) ==
    [path |-> okx_rest_account_fetch_order_path, method |-> "GET",
     json_payload |-> None,
     query_params |-> Some(IF order_id # None
                           THEN DictSet(DictSet(EmptyDict, "instId", symbol), "ordId", order_id)
                           ELSE DictSet(DictSet(EmptyDict, "instId", symbol), "clOrdId", client_order_id))]

\* Okx.is_rest_response_success
okx_is_rest_response_success(rest_response) ==
    /\ is_rest_response_success(rest_response)
    /\ rest_response.json_deserialized_payload["code"] = "0"

okx_is_rest_response_for_create_order(rest_response) ==
    /\ rest_response.rest_request.path = okx_rest_account_create_order_path
    /\ rest_response.rest_request.method = "POST"

okx_is_rest_response_for_cancel_order(rest_response) ==
    rest_response.rest_request.path = okx_rest_account_cancel_order_path

okx_is_rest_response_for_fetch_order(rest_response) ==
    /\ rest_response.rest_request.path = okx_rest_account_fetch_order_path
    /\ rest_response.rest_request.method = "GET"

\* Okx.handle_rest_response_for_error, its branch for the responses to other
\* requests than create_order and cancel_order: the orders it leaves
okx_handle_rest_response_for_error_of_fetch_order(d, rest_response, now) ==
    LET query_params == Val(rest_response.rest_request.query_params)
    IN  IF /\ okx_is_rest_response_for_fetch_order(rest_response)
           /\ rest_response.status_code = 200
           /\ dict_get_in(rest_response.json_deserialized_payload, "code", {"51001", "51603"})
        THEN replace_order(d, query_params["instId"], dict_get(query_params, "ordId"),
                           dict_get(query_params, "clOrdId"),
                           [exchange_update_time_point |-> Some(now), status |-> Some(REJECTED)])
        ELSE d

\* Okx.handle_rest_response_for_error, called by rest_on_response with a
\* response that is not a success; fetch_order is the request it sends
okx_handle_rest_response_for_error(rest_response, now) ==
    LET json_payload == Val(rest_response.rest_request.json_payload)
        query_params == Val(rest_response.rest_request.query_params)
    IN  /\ call = Idle
        /\ ~okx_is_rest_response_success(rest_response)
        /\ IF \/ okx_is_rest_response_for_create_order(rest_response)
              \/ okx_is_rest_response_for_cancel_order(rest_response)
           THEN /\ orders' = orders
                /\ call' = [op |-> "okx_handle_rest_response_for_error", arg |-> rest_response, before |-> orders,
                            fetch_order |-> Some([symbol |-> json_payload["instId"],
                                                  order_id |-> dict_get(json_payload, "ordId"),
                                                  client_order_id |-> dict_get(json_payload, "clOrdId")])]
           ELSE /\ orders' = okx_handle_rest_response_for_error_of_fetch_order(orders, rest_response, now)
                /\ call' = [op |-> "okx_handle_rest_response_for_error", arg |-> rest_response, before |-> orders,
                            fetch_order |-> None]
        /\ UNCHANGED <<bbo_vars, position_vars, ohlcv_vars, trade_vars, fill_vars, order_symbols,
                       cancel_orders_task, client_order_id_vars, options, balance_vars, session_vars>>

\* Bybit.__init__: the paths of the order requests
bybit_rest_account_create_order_path == "/v5/order/create"
bybit_rest_account_cancel_order_path == "/v5/order/cancel"
bybit_rest_account_fetch_order_path == "/v5/order/history"

\* Bybit.rest_account_create_order_create_rest_request_function, with the
\* keys of account_create_order_create_json_payload that name the order
bybit_rest_account_create_order_create_rest_request(order) ==
    [path |-> bybit_rest_account_create_order_path, method |-> "POST",
     json_payload |-> Some(DictSet(DictSet(EmptyDict, "symbol", order.symbol), "orderLinkId", order.client_order_id)),
     query_params |-> None]

\* Bybit.rest_account_cancel_order_create_rest_request_function
bybit_rest_account_cancel_order_create_rest_request(symbol, order_id, client_order_id) ==
    [path |-> bybit_rest_account_cancel_order_path, method |-> "POST",
     json_payload |-> Some(IF order_id # None
                           THEN DictSet(DictSet(EmptyDict, "symbol", symbol), "orderId", order_id)
                           ELSE DictSet(DictSet(EmptyDict, "symbol", symbol), "orderLinkId", client_order_id)),
     query_params |-> None]

\* Bybit.rest_account_fetch_order_create_rest_request_function
bybit_rest_account_fetch_order_create_rest_request(symbol, order_id, client_order_id) ==
    [path |-> bybit_rest_account_fetch_order_path, method |-> "GET",
     json_payload |-> None,
     query_params |-> Some(IF order_id # None
                           THEN DictSet(DictSet(EmptyDict, "symbol", symbol), "orderId", order_id)
                           ELSE DictSet(DictSet(EmptyDict, "symbol", symbol), "orderLinkId", client_order_id))]

\* Bybit.is_rest_response_success
bybit_is_rest_response_success(rest_response) ==
    /\ is_rest_response_success(rest_response)
    /\ rest_response.json_deserialized_payload["retCode"] = 0

bybit_is_rest_response_for_create_order(rest_response) ==
    rest_response.rest_request.path = bybit_rest_account_create_order_path

bybit_is_rest_response_for_cancel_order(rest_response) ==
    rest_response.rest_request.path = bybit_rest_account_cancel_order_path

\* Bybit.is_rest_response_for_fetch_order: the keys it looks for begin with a
\* space
bybit_is_rest_response_for_fetch_order(rest_response) ==
    /\ rest_response.rest_request.path = bybit_rest_account_fetch_order_path
    /\ \/ " orderId" \in DOMAIN Val(rest_response.rest_request.query_params)
       \/ " orderLinkId" \in DOMAIN Val(rest_response.rest_request.query_params)

\* Bybit.handle_rest_response_for_error, its branch for the responses to
\* other requests than create_order and cancel_order: the orders it leaves
bybit_handle_rest_response_for_error_of_fetch_order(d, rest_response, now) ==
    LET query_params == Val(rest_response.rest_request.query_params)
    IN  IF /\ bybit_is_rest_response_for_fetch_order(rest_response)
           /\ rest_response.status_code = 200
           /\ dict_get_in(rest_response.json_deserialized_payload, "code", {110001})
        THEN replace_order(d, query_params["symbol"], dict_get(query_params, "orderId"),
                           dict_get(query_params, "orderLinkId"),
                           [exchange_update_time_point |-> Some(now),
                            local_update_time_point |-> Some(time_point_now),
                            status |-> Some(REJECTED)])
        ELSE d

\* Bybit.handle_rest_response_for_error, called by rest_on_response with a
\* response that is not a success; fetch_order is the request of the task it
\* creates
bybit_handle_rest_response_for_error(rest_response, now) ==
    LET json_payload == Val(rest_response.rest_request.json_payload)
        query_params == Val(rest_response.rest_request.query_params)
    IN  /\ call = Idle
        /\ ~bybit_is_rest_response_success(rest_response)
        /\ IF \/ bybit_is_rest_response_for_create_order(rest_response)
              \/ bybit_is_rest_response_for_cancel_order(rest_response)
           THEN /\ orders' = orders
                /\ call' = [op |-> "bybit_handle_rest_response_for_error", arg |-> rest_response, before |-> orders,
                            fetch_order |-> Some([symbol |-> json_payload["symbol"],
                                                  order_id |-> dict_get(json_payload, "orderId"),
                                                  client_order_id |-> dict_get(json_payload, "orderLinkId")])]
           ELSE /\ orders' = bybit_handle_rest_response_for_error_of_fetch_order(orders, rest_response, now)
                /\ call' = [op |-> "bybit_handle_rest_response_for_error", arg |-> rest_response, before |-> orders,
                            fetch_order |-> None]
        /\ UNCHANGED <<bbo_vars, position_vars, ohlcv_vars, trade_vars, fill_vars, order_symbols,
                       cancel_orders_task, client_order_id_vars, options, balance_vars, session_vars>>

\* the orders of the cache
CachedOrders == UNION {{orders[symbol][i] : i \in 1..Len(orders[symbol])} : symbol \in DOMAIN orders}

\* the responses of OKX that are not a success: to the create request of a
\* cached order, and to cancel and fetch requests
OkxErrorResponses ==
    LET requests ==
            {okx_rest_account_create_order_create_rest_request(order) : order \in CachedOrders}
            \cup {okx_rest_account_cancel_order_create_rest_request(symbol, ids.order_id, ids.client_order_id) :
                     symbol \in OrderSymbols, ids \in RequestIds}
            \cup {okx_rest_account_fetch_order_create_rest_request(symbol, ids.order_id, ids.client_order_id) :
                     symbol \in OrderSymbols, ids \in RequestIds}
    IN  {RestResponse(rest_request, status_code, DictSet(EmptyDict, "code", code)) :
            rest_request \in requests, status_code \in {200, 400}, code \in {"1", "51001", "51603"}}

\* the responses of Bybit that are not a success
BybitErrorResponses ==
    LET requests ==
            {bybit_rest_account_create_order_create_rest_request(order) : order \in CachedOrders}
            \cup {bybit_rest_account_cancel_order_create_rest_request(symbol, ids.order_id, ids.client_order_id) :
                     symbol \in OrderSymbols, ids \in RequestIds}
            \cup {bybit_rest_account_fetch_order_create_rest_request(symbol, ids.order_id, ids.client_order_id) :
                     symbol \in OrderSymbols, ids \in RequestIds}
    IN  {RestResponse(rest_request, status_code, DictSet(EmptyDict, "retCode", retCode)) :
            rest_request \in requests, status_code \in {200, 400}, retCode \in {10001, 110001}}

\* a reading of the local clock that lies further back than
\* rest_account_check_open_order_threshold_seconds and
\* rest_account_check_in_flight_order_threshold_seconds
long_ago == "long ago"

\* time goes by: the local_update_time_point of an order, which was a recent
\* reading of the clock, now lies further back than the thresholds
threshold_passes(symbol, index) ==
    /\ symbol \in DOMAIN orders
    /\ index \in 1..Len(orders[symbol])
    /\ orders[symbol][index].local_update_time_point = Some(time_point_now)
    /\ orders' = [orders EXCEPT ![symbol][index].local_update_time_point = Some(long_ago)]
    /\ UNCHANGED <<bbo_vars, position_vars, ohlcv_vars, trade_vars, fill_vars, order_symbols, cancel_orders_task,
                   client_order_id_vars, options, call, balance_vars, session_vars>>

\* rest_account_check_open_order and rest_account_check_in_flight_order: the
\* test on one order
check_order_is_due(name, order) ==
    /\ IF name = "check_open_order" THEN is_open(order) ELSE is_in_flight(order)
    /\ order.local_update_time_point = Some(long_ago)

\* rest_account_check_open_order and rest_account_check_in_flight_order: the
\* loops over self.orders.items() and over the orders of a symbol, from
\* where task stands to the next order whose fetch_order they send, or to
\* their end.  Like cancel_orders they iterate the dict itself, so a key
\* inserted while they await raises RuntimeError.
RECURSIVE check_order_loop(_, _, _)
check_order_loop(d, name, task) ==
    IF task.keys = <<>>
    THEN [dispatch |-> None, task |-> None, raised |-> FALSE]
    ELSE LET symbol == Head(task.keys)
             orders_for_symbol == DictGet(d, symbol)
         IN  IF task.index > Len(orders_for_symbol)
             THEN IF Cardinality(DOMAIN d) # task.size
                  THEN [dispatch |-> None, task |-> None, raised |-> TRUE]
                  ELSE check_order_loop(d, name, [task EXCEPT !.keys = Tail(@), !.index = 1])
             ELSE IF check_order_is_due(name, orders_for_symbol[task.index])
                  THEN [dispatch |-> Some(<<symbol, task.index>>),
                        task |-> Some([task EXCEPT !.index = @ + 1, !.dispatch = <<symbol, task.index>>]),
                        raised |-> FALSE]
                  ELSE check_order_loop(d, name, [task EXCEPT !.index = @ + 1])

\* the periodic task of name runs its check from where task stands to the
\* await of the fetch_order it sends, to the sleep of the next period, or to
\* the exception that ends it: start() wraps the whole loop of the periodic
\* task in one try
rest_account_check_order_run(name, task) ==
    LET run == check_order_loop(orders, name, task)
    IN  /\ periodic_tasks' = [periodic_tasks EXCEPT ![name] =
              IF run.raised THEN "ended" ELSE IF run.dispatch # None THEN "fetching" ELSE "asleep"]
        /\ check_order_tasks' = [check_order_tasks EXCEPT ![name] = run.task]
        /\ UNCHANGED <<stopped, session, websocket_connection_auto_reconnect, websocket_endpoints,
                       websocket_tasks, websocket_connections, connection,
                       websocket_reconnect_delay_seconds, websocket_logged_in_connections, reset_tasks,
                       stop_connections, client_session_closed, cache_vars>>

\* start_periodic_rest_account_check_open_order and
\* start_periodic_rest_account_check_in_flight_order: the sleep of the period
\* is over and the check starts
start_periodic_rest_account_check_order(name) ==
    /\ periodic_tasks[name] = "asleep"
    /\ rest_account_check_order_run(name,
          [keys |-> order_symbols, index |-> 1, size |-> Cardinality(DOMAIN orders), dispatch |-> <<>>])

\* the fetch_order the check awaits returns and the delay between two
\* requests is slept: the check goes on
rest_account_check_order_resume(name) ==
    /\ periodic_tasks[name] = "fetching"
    /\ rest_account_check_order_run(name, Val(check_order_tasks[name]))

\* send_rest_request raises in the fetch_order the check awaits (the request
\* of the client session fails to connect or times out before the response
\* is there): the exception leaves the check and the loop of the periodic
\* task, whose except clause is outside the loop
rest_account_fetch_order_raises(name) ==
    /\ periodic_tasks[name] = "fetching"
    /\ periodic_tasks' = [periodic_tasks EXCEPT ![name] = "ended"]
    /\ check_order_tasks' = [check_order_tasks EXCEPT ![name] = None]
    /\ UNCHANGED <<stopped, session, websocket_connection_auto_reconnect, websocket_endpoints,
                   websocket_tasks, websocket_connections, connection,
                   websocket_reconnect_delay_seconds, websocket_logged_in_connections, reset_tasks,
                   stop_connections, client_session_closed, cache_vars>>

\* the constructor's defaults: no subscription, order requests over REST; an
\* adapter that sets nothing builds trades with monotone ids
DefaultOptions ==
    [subscribe_trade |-> FALSE, subscribe_fill |-> FALSE, is_trade_id_monotonic_increase |-> TRUE,
     trade_api_method_preference |-> Some(REST)]

\* what a caller passes as trade_api_method_preference
ApiMethodPreferences == {None, Some(REST), Some(WEBSOCKET)}

\* sessions subscribed to trades or to fills, on a venue with monotone trade
\* ids and on one without
OptionValues ==
    {o \in [subscribe_trade : BOOLEAN, subscribe_fill : BOOLEAN, is_trade_id_monotonic_increase : BOOLEAN,
            trade_api_method_preference : {Some(REST)}] :
        o.subscribe_trade # o.subscribe_fill}

\* Exchange.__init__: every cache is empty
\* the session's state after Exchange.__init__
InitSession ==
    /\ stopped = FALSE
    /\ session = "constructed"
    /\ websocket_connection_auto_reconnect = TRUE
    /\ websocket_endpoints = Endpoints
    /\ InitSessionState

InitCacheState ==
    /\ bbos = EmptyDict
    /\ positions = EmptyDict
    /\ balances = EmptyDict
    /\ seen_positions = EmptyDict
    /\ ohlcvs = EmptyDict
    /\ seen_ohlcvs = EmptyDict
    /\ trades = EmptyDict
    /\ fills = EmptyDict
    /\ orders = EmptyDict
    /\ order_symbols = <<>>
    /\ cancel_orders_task = None
    /\ last_client_order_id_unix_timestamp_seconds = None
    /\ last_client_order_id_sequence_number = None
    /\ call = Idle

InitCaches == InitSession /\ InitCacheState

Init == InitCaches /\ options = DefaultOptions
InitTrade == InitCaches /\ options \in OptionValues
InitAny == InitCaches /\ options \in OptionValues \cup {DefaultOptions}

\* sessions with and without auto-reconnect, with one stream or both
InitSessions ==
    /\ stopped = FALSE
    /\ session = "constructed"
    /\ websocket_connection_auto_reconnect \in BOOLEAN
    /\ websocket_endpoints \in {{"market_data"}, Endpoints}
    /\ InitSessionState
    /\ InitCacheState
    /\ options = DefaultOptions

\* cancel_orders is called on a cache that holds orders
InitCancelOrders ==
    /\ InitSession
    /\ bbos = EmptyDict
    /\ positions = EmptyDict
    /\ balances = EmptyDict
    /\ seen_positions = EmptyDict
    /\ ohlcvs = EmptyDict
    /\ seen_ohlcvs = EmptyDict
    /\ trades = EmptyDict
    /\ fills = EmptyDict
    /\ orders \in CancelOrdersCaches
    /\ order_symbols = <<"BTC", "ETH">>
    /\ cancel_orders_task = None
    /\ last_client_order_id_unix_timestamp_seconds = None
    /\ last_client_order_id_sequence_number = None
    /\ options = DefaultOptions
    /\ call = Idle

NextBbo ==
    \/ handler_return
    \/ \E batch \in Batches(BboValues) : update_rest_response_for_bbo(batch)
    \/ \E batch \in Batches(BboValues) : update_websocket_push_data_for_bbo(batch)

NextPosition ==
    \/ handler_return
    \/ \E batch \in Batches(PositionValues) : update_websocket_push_data_for_position(batch)
    \/ \E batch \in Batches(PositionValues) : update_rest_response_for_fetch_position(batch)

\* balances and positions are fed side by side; positions of one symbol here
NextBalance ==
    \/ handler_return
    \/ \E batch \in Batches(BalanceValues) : update_websocket_push_data_for_balance(batch)
    \/ \E batch \in Batches(BalanceValues) : update_rest_response_for_fetch_balance(batch)
    \/ \E batch \in Batches({p \in PositionValues : p.symbol = "BTC"}) :
          update_websocket_push_data_for_position(batch)
    \/ \E batch \in Batches({p \in PositionValues : p.symbol = "BTC"}) :
          update_rest_response_for_fetch_position(batch)

NextOhlcv ==
    \/ handler_return
    \/ \E historical_ohlcvs \in OhlcvBatches : update_rest_response_for_historical_ohlcv(historical_ohlcvs)
    \/ \E batch \in OhlcvBatches : update_websocket_push_data_for_ohlcv(batch)

NextTrade ==
    \/ handler_return
    \/ \E historical_trades \in TradeBatches(options.is_trade_id_monotonic_increase) :
          update_rest_response_for_historical_trade(historical_trades)
    \/ \E batch \in TradeBatches(options.is_trade_id_monotonic_increase) :
          update_websocket_push_data_for_trade(batch)
    \/ \E historical_fills \in TradeBatches(options.is_trade_id_monotonic_increase) :
          update_rest_response_for_historical_fill(historical_fills)
    \/ \E batch \in TradeBatches(options.is_trade_id_monotonic_increase) :
          update_websocket_push_data_for_fill(batch)

NextOrder ==
    \/ handler_return
    \/ \E order \in OrdersToCreate, trade_api_method_preference \in ApiMethodPreferences :
          create_order(order, trade_api_method_preference)
    \/ \E symbol \in OrderSymbols, ids \in RequestIds, trade_api_method_preference \in ApiMethodPreferences :
          cancel_order(symbol, ids.order_id, ids.client_order_id, trade_api_method_preference)
    \/ \E order \in CreateOrderResponses : update_rest_response_for_create_order(order)
    \/ \E order \in CancelOrderResponses : update_rest_response_for_cancel_order(order)
    \/ \E order \in VenueOrders : update_rest_response_for_fetch_order(order)
    \/ \E open_orders \in VenueOrderBatches : update_rest_response_for_fetch_open_order(open_orders)
    \/ \E historical_orders \in VenueOrderBatches : update_rest_response_for_historical_order(historical_orders)
    \/ \E batch \in VenueOrderBatches : update_websocket_push_data_for_order(batch)
    \/ \E symbol \in OrderSymbols, ids \in RequestIds, now \in 1..MaxT :
          handle_rest_response_for_error(symbol, ids.order_id, ids.client_order_id, now)
    \/ \E symbol \in {None} \cup {Some(x) : x \in OrderSymbols} : cancel_orders(symbol, None, None, None)
    \/ cancel_orders_resume

NextCancelOrders ==
    \/ handler_return
    \/ \E symbol \in CancelOrdersSymbols, filter \in CancelOrdersFilters :
          cancel_orders(symbol, filter.order_ids, filter.client_order_ids, filter.margin_asset)
    \/ cancel_orders_resume
    \/ \E order \in CancelOrdersPushes : update_websocket_push_data_for_order(<<order>>)

Next == NextBbo \/ NextPosition \/ NextBalance \/ NextOhlcv \/ NextTrade \/ NextOrder \/ NextCancelOrders

Spec == InitAny /\ [][Next]_vars
SpecBbo == Init /\ [][NextBbo]_vars
SpecPosition == Init /\ [][NextPosition]_vars
SpecSession == InitSessions /\ [][NextSession]_vars
\* The event loop runs every task that is ready, a sleep ends, and an await
\* of the network returns or raises; what the venue and the network do to an
\* open connection, and whether the caller calls stop, is left open.
FairnessSession ==
    /\ WF_vars(start_returns)
    /\ WF_vars(stop_resume)
    /\ WF_vars(stop_returns)
    /\ \A e \in Endpoints :
          /\ WF_vars(start_websocket_connect_attempt(e))
          /\ WF_vars(websocket_connect_fails(e) \/ websocket_on_connected(e))
          /\ WF_vars(websocket_on_disconnected(e))
          /\ WF_vars(websocket_connection_application_level_heartbeat_timeout(e))
          /\ WF_vars(reset_websocket_reconnect_delay(e))

SpecSessionFair == InitSessions /\ [][NextSession]_vars /\ FairnessSession
SpecBalance == Init /\ [][NextBalance]_vars
SpecOhlcv == Init /\ [][NextOhlcv]_vars
SpecTrade == InitTrade /\ [][NextTrade]_vars
SpecOrder == Init /\ [][NextOrder]_vars
SpecCancelOrders == InitCancelOrders /\ [][NextCancelOrders]_vars

\* a session with the account stream, of any trade_api_method_preference,
\* whose caller creates and cancels orders while the stream connects, logs
\* in, is lost and reconnects
InitOrderMethod ==
    /\ stopped = FALSE
    /\ session = "constructed"
    /\ websocket_connection_auto_reconnect = TRUE
    /\ websocket_endpoints = {"account"}
    /\ InitSessionState
    /\ InitCacheState
    /\ options \in {[DefaultOptions EXCEPT !.trade_api_method_preference = p] : p \in ApiMethodPreferences}

NextOrderMethod ==
    \/ NextSession
    \/ handler_return
    \/ \E order \in OrdersToCreate, trade_api_method_preference \in ApiMethodPreferences :
          create_order(order, trade_api_method_preference)
    \/ \E symbol \in OrderSymbols, ids \in RequestIds, trade_api_method_preference \in ApiMethodPreferences :
          cancel_order(symbol, ids.order_id, ids.client_order_id, trade_api_method_preference)

SpecOrderMethod == InitOrderMethod /\ [][NextOrderMethod]_vars

\* an order that the sweep finds in the cache: in flight, open or closed,
\* last updated at some second and nanosecond of the local clock
RetainedOrder(symbol, client_order_id, status, local_update_time_point) ==
    [symbol |-> symbol,
     exchange_update_time_point |-> IF status = CREATE_IN_FLIGHT THEN None ELSE Some(1),
     order_id |-> None,
     client_order_id |-> Some(client_order_id),
     margin_asset |-> None,
     cumulative_filled_quantity |-> None,
     local_update_time_point |-> Some(local_update_time_point),
     status |-> Some(status)]

LocalTimePoints == (0..MaxSec) \X {0, 1}

\* what an order on BTC is when the sweep comes: in flight or open (updated
\* at a whole second) or filled; and what the order on ETH is: filled
RetainedOrderChoices ==
    ({CREATE_IN_FLIGHT, NEW_} \X ((0..MaxSec) \X {0})) \cup ({FILLED} \X LocalTimePoints)

RetainedOrderChoicesOther == {FILLED} \X {<<0, 0>>, <<MaxSec, 1>>}

\* the orders of a symbol, in the order of the cache, that are in the
\* statuses and at the time points choice gives
RetainedOrders(symbol, choice) ==
    [i \in DOMAIN choice |->
        RetainedOrder(symbol, <<"1000", "1001", "1002", "1003">>[i], choice[i][1], choice[i][2])]

InitRemoveOrders ==
    /\ InitSession
    /\ bbos = EmptyDict
    /\ positions = EmptyDict
    /\ balances = EmptyDict
    /\ seen_positions = EmptyDict
    /\ ohlcvs = EmptyDict
    /\ seen_ohlcvs = EmptyDict
    /\ trades = EmptyDict
    /\ fills = EmptyDict
    /\ \E len \in 0..MaxRetained, other \in 0..1 :
          \E choice \in [1..len -> RetainedOrderChoices], choice_other \in [1..other -> RetainedOrderChoicesOther] :
             orders = DictSet(DictSet(EmptyDict, "BTC", RetainedOrders("BTC", choice)),
                              "ETH", RetainedOrders("ETH", choice_other))
    /\ order_symbols = <<"BTC", "ETH">>
    /\ cancel_orders_task = None
    /\ last_client_order_id_unix_timestamp_seconds = None
    /\ last_client_order_id_sequence_number = None
    /\ options = DefaultOptions
    /\ call = Idle

NextRemoveOrders ==
    \/ handler_return
    \/ remove_orders

SpecRemoveOrders == InitRemoveOrders /\ [][NextRemoveOrders]_vars

\* the time points a venue stamps on trades and fills: seconds and a
\* fraction of a second
ExchangeTimePoints == (0..MaxSec) \X {0, 1}

\* a trade or a fill that a sweep finds in the cache; the venue numbers its
\* trades in the order of the list
RetainedTrade(symbol, index, exchange_update_time_point) ==
    [symbol |-> symbol,
     exchange_update_time_point |-> exchange_update_time_point,
     trade_id |-> <<"9", "10", "11", "12">>[index],
     is_trade_id_monotonic_increase |-> TRUE]

RetainedTrades(symbol, time_points) ==
    [i \in DOMAIN time_points |-> RetainedTrade(symbol, i, time_points[i])]

\* a candle that a sweep finds in the cache
RetainedOhlcvs(symbol, time_points) ==
    [i \in DOMAIN time_points |->
        [symbol |-> symbol, start_unix_timestamp_seconds |-> time_points[i][1], close_price |-> 1]]

\* the lists of trades and fills are kept sorted by time point and id, the
\* lists of candles by start with one candle for a bucket
IsSortedByTimePoint(time_points) ==
    \A i \in 1..(Len(time_points) - 1) : ~tuple_less(time_points[i + 1], time_points[i])

IsSortedByBucket(time_points) ==
    /\ \A i \in 1..(Len(time_points) - 1) : time_points[i][1] < time_points[i + 1][1]
    /\ \A i \in 1..Len(time_points) : time_points[i][2] = 0

\* a retention sweep finds up to MaxRetained trades, fills or candles on BTC
\* and at most one on ETH
InitRetention ==
    /\ InitSession
    /\ bbos = EmptyDict
    /\ positions = EmptyDict
    /\ balances = EmptyDict
    /\ seen_positions = EmptyDict
    /\ seen_ohlcvs = EmptyDict
    /\ orders = EmptyDict
    /\ order_symbols = <<>>
    /\ cancel_orders_task = None
    /\ last_client_order_id_unix_timestamp_seconds = None
    /\ last_client_order_id_sequence_number = None
    /\ options = DefaultOptions
    /\ call = Idle
    /\ \E len \in 0..MaxRetained, other \in 0..1 :
          \E time_points \in [1..len -> ExchangeTimePoints],
             time_points_other \in [1..other -> {<<0, 0>>, <<MaxSec, 0>>}] :
             \/ /\ IsSortedByTimePoint(time_points)
                /\ trades = DictSet(DictSet(EmptyDict, "BTC", RetainedTrades("BTC", time_points)),
                                    "ETH", RetainedTrades("ETH", time_points_other))
                /\ fills = EmptyDict
                /\ ohlcvs = EmptyDict
             \/ /\ IsSortedByTimePoint(time_points)
                /\ fills = DictSet(DictSet(EmptyDict, "BTC", RetainedTrades("BTC", time_points)),
                                   "ETH", RetainedTrades("ETH", time_points_other))
                /\ trades = EmptyDict
                /\ ohlcvs = EmptyDict
             \/ /\ IsSortedByBucket(time_points)
                /\ ohlcvs = DictSet(DictSet(EmptyDict, "BTC", RetainedOhlcvs("BTC", time_points)),
                                    "ETH", RetainedOhlcvs("ETH", time_points_other))
                /\ trades = EmptyDict
                /\ fills = EmptyDict

NextRetention ==
    \/ handler_return
    \/ remove_trades
    \/ remove_fills
    \/ remove_ohlcvs

SpecRetention == InitRetention /\ [][NextRetention]_vars

\* the padding lengths a session is run with: the one the constructor sets
\* and a shorter one assigned to the attribute
PaddingLengths == {1, 3}

\* a strategy that makes its client order ids itself while the clock runs
InitClientOrderId ==
    /\ InitCaches
    /\ \E padding_length \in PaddingLengths :
          options = [subscribe_trade |-> DefaultOptions.subscribe_trade,
                     subscribe_fill |-> DefaultOptions.subscribe_fill,
                     is_trade_id_monotonic_increase |-> DefaultOptions.is_trade_id_monotonic_increase,
                     trade_api_method_preference |-> DefaultOptions.trade_api_method_preference,
                     client_order_id_sequence_number_padding_length |-> padding_length]

NextClientOrderId ==
    \/ handler_return
    \/ \E unix_timestamp_seconds \in 0..MaxSec : generate_next_client_order_id_called(unix_timestamp_seconds)

SpecClientOrderId == InitClientOrderId /\ [][NextClientOrderId]_vars

\* Order(**kwargs): the dataclass with its defaults
OrderDefaults ==
    [api_method |-> None, symbol |-> None, exchange_update_time_point |-> None,
     order_id |-> None, client_order_id |-> None, is_buy |-> None, price |-> None, quantity |-> None,
     is_market |-> FALSE, is_post_only |-> FALSE, is_fok |-> FALSE, is_ioc |-> FALSE, is_reduce_only |-> FALSE,
     margin_type |-> None, margin_asset |-> None, extra_params |-> None,
     cumulative_filled_quantity |-> None, cumulative_filled_quote_quantity |-> None,
     exchange_create_time_point |-> None, local_update_time_point |-> None, status |-> None,
     extra_data |-> None]

Order(kwargs) == dataclasses_replace(OrderDefaults, kwargs)

\* the order a strategy created with create_order, as the cache holds it
\* until the venue answers
CreatedOrder(symbol) ==
    Order([api_method |-> Some(REST), symbol |-> symbol, client_order_id |-> Some("1000"),
           is_buy |-> Some(TRUE), price |-> Some("1"), quantity |-> Some("1"), is_post_only |-> TRUE,
           extra_params |-> Some("tag"), extra_data |-> Some("strategy"),
           local_update_time_point |-> Some(time_point_now), status |-> Some(CREATE_IN_FLIGHT)])

\* the statuses and filled quantities that order has later: acknowledged, with
\* a cancel under way, rejected by the error hook, or as the venue's last
\* record had it
StoredProgress ==
    {<<CREATE_ACKNOWLEDGED, None, None>>, <<CANCEL_IN_FLIGHT, Some("0"), Some("0")>>,
     <<REJECTED, None, None>>, <<NEW_, Some("0"), None>>, <<PARTIALLY_FILLED, Some("0.5"), Some("0.5")>>,
     <<FILLED, Some("0.5"), Some("0.5")>>}

StoredOrders(symbol) ==
    {CreatedOrder(symbol)}
    \cup {dataclasses_replace(CreatedOrder(symbol),
              [exchange_update_time_point |-> Some(t), order_id |-> IF progress[1] = REJECTED THEN None ELSE Some("o1"),
               margin_asset |-> IF progress[1] = REJECTED THEN None ELSE Some("USDT"),
               cumulative_filled_quantity |-> progress[2], cumulative_filled_quote_quantity |-> progress[3],
               exchange_create_time_point |-> exchange_create_time_point, status |-> Some(progress[1])]) :
          t \in 1..MaxT, progress \in StoredProgress, exchange_create_time_point \in {None, Some(1)}}

\* an order placed elsewhere that a push announced, as update_order appended it
AnnouncedOrder(symbol) ==
    Order([api_method |-> Some(WEBSOCKET), symbol |-> symbol, exchange_update_time_point |-> Some(1),
           order_id |-> Some("o2"), client_order_id |-> Some(""), is_buy |-> Some(FALSE),
           price |-> Some("2"), quantity |-> Some("1"), is_ioc |-> TRUE,
           cumulative_filled_quantity |-> Some("0"), exchange_create_time_point |-> Some(1),
           local_update_time_point |-> Some(time_point_now), status |-> Some(NEW_)])

\* what an adapter builds from the venue's record of an order (a push or a
\* fetch_order response): the record names the order by both ids, by the
\* order id alone (no or an empty client order id) or is of another order
VenueRecordProgress ==
    {<<NEW_, None, None>>, <<NEW_, Some("0"), None>>, <<PARTIALLY_FILLED, Some("0.5"), Some("0.5")>>,
     <<FILLED, Some("0.5"), Some("0.5")>>, <<CANCELED, Some("0"), None>>}

VenueRecords ==
    {Order([api_method |-> Some(WEBSOCKET), symbol |-> symbol, exchange_update_time_point |-> Some(t),
            order_id |-> Some(order_id), client_order_id |-> client_order_id,
            is_buy |-> Some(side), price |-> price, quantity |-> Some("1"),
            is_post_only |-> side, is_ioc |-> ~side, margin_type |-> Some("cross"),
            cumulative_filled_quantity |-> progress[2], cumulative_filled_quote_quantity |-> progress[3],
            exchange_create_time_point |-> Some(MaxT), status |-> Some(progress[1])]) :
        symbol \in {"BTC", "ETH"}, t \in 1..MaxT, order_id \in {"o1", "o2"},
        client_order_id \in {None, Some(""), Some("1000"), Some("1001")}, side \in BOOLEAN,
        price \in {None, Some("1"), Some("2")}, progress \in VenueRecordProgress}

\* what an adapter builds from the response to a create or a cancel request:
\* the ids of the request and the venue's time
AcknowledgedOrders ==
    {order \in {Order([api_method |-> Some(REST), symbol |-> symbol, exchange_update_time_point |-> Some(t),
                       order_id |-> order_id, client_order_id |-> Some("1000"),
                       exchange_create_time_point |-> IF status = CREATE_ACKNOWLEDGED THEN Some(t) ELSE None,
                       status |-> Some(status)]) :
                    symbol \in {"BTC", "ETH"}, t \in 1..MaxT,
                    status \in {CREATE_ACKNOWLEDGED, CANCEL_ACKNOWLEDGED},
                    order_id \in {None, Some("o1")}} :
        order.status = Some(CREATE_ACKNOWLEDGED) => order.order_id # None}

\* update_order finds a cache that holds on BTC nothing, the order created
\* here, or the announced order and then the order created here, and on ETH
\* an order with the ids of the one on BTC
InitUpdateOrder ==
    /\ InitSession
    /\ bbos = EmptyDict
    /\ positions = EmptyDict
    /\ balances = EmptyDict
    /\ seen_positions = EmptyDict
    /\ ohlcvs = EmptyDict
    /\ seen_ohlcvs = EmptyDict
    /\ trades = EmptyDict
    /\ fills = EmptyDict
    /\ \/ /\ orders = DictSet(EmptyDict, "ETH", <<CreatedOrder("ETH")>>)
          /\ order_symbols = <<"ETH">>
       \/ /\ \E stored \in StoredOrders("BTC"), announced \in {<<>>, <<AnnouncedOrder("BTC")>>} :
                orders = DictSet(DictSet(EmptyDict, "ETH", <<CreatedOrder("ETH")>>), "BTC", announced \o <<stored>>)
          /\ order_symbols = <<"ETH", "BTC">>
    /\ cancel_orders_task = None
    /\ last_client_order_id_unix_timestamp_seconds = None
    /\ last_client_order_id_sequence_number = None
    /\ options = DefaultOptions
    /\ call = Idle

\* one record reaches update_order: a push, the response to a fetch_order, or
\* the response to a create or a cancel request
NextUpdateOrder ==
    \/ \E order \in VenueRecords : update_websocket_push_data_for_order(<<order>>)
    \/ \E order \in VenueRecords : update_rest_response_for_fetch_order(order)
    \/ \E order \in {x \in AcknowledgedOrders : x.status = Some(CREATE_ACKNOWLEDGED)} :
          update_rest_response_for_create_order(order)
    \/ \E order \in {x \in AcknowledgedOrders : x.status = Some(CANCEL_ACKNOWLEDGED)} :
          update_rest_response_for_cancel_order(order)

SpecUpdateOrder == InitUpdateOrder /\ [][NextUpdateOrder]_vars

\* the adapters, by the name of the exchange
ExchangeNames == {"okx", "bybit"}

\* what the venue answers to the fetch_order of an order: None, it does not
\* know the order, or its record of the order (after convert_dict_to_order)
FetchOrderAnswers(order) ==
    {None} \cup {Some(record) : record \in
                    {r \in VenueOrders :
                        /\ r.symbol = order.symbol
                        /\ r.client_order_id = order.client_order_id
                        /\ order.order_id # None => r.order_id = order.order_id}}

\* the response of OKX to a fetch_order: code 51603 for an order it does not
\* know, else code 0 and the record in data
okx_fetch_order_response(rest_request, answer) ==
    IF answer = None
    THEN RestResponse(rest_request, 200, [code |-> "51603", data |-> <<>>])
    ELSE RestResponse(rest_request, 200, [code |-> "0", data |-> <<Val(answer)>>])

\* the response of Bybit to a fetch_order: retCode 0 and the records found
\* in result.list, which is empty for an order it does not know
bybit_fetch_order_response(rest_request, answer, now) ==
    RestResponse(rest_request, 200,
                 [retCode |-> 0, time |-> now,
                  result |-> [list |-> IF answer = None THEN <<>> ELSE <<Val(answer)>>]])

\* Okx.convert_rest_response_for_fetch_order
okx_convert_rest_response_for_fetch_order(json_deserialized_payload, rest_request) ==
    json_deserialized_payload["data"][1]

\* Bybit.convert_rest_response_for_fetch_order
bybit_convert_rest_response_for_fetch_order(json_deserialized_payload, rest_request) ==
    IF json_deserialized_payload["result"]["list"] # <<>>
    THEN json_deserialized_payload["result"]["list"][1]
    ELSE [symbol |-> Val(rest_request.query_params)["symbol"],
          exchange_update_time_point |-> Some(json_deserialized_payload["time"]),
          order_id |-> dict_get(Val(rest_request.query_params), "orderId"),
          client_order_id |-> dict_get(Val(rest_request.query_params), "orderLinkId"),
          margin_asset |-> None,
          cumulative_filled_quantity |-> None,
          local_update_time_point |-> None,
          status |-> Some(REJECTED)]

\* Bybit.__init__: the path of the historical orders is the path of
\* fetch_order
bybit_rest_account_fetch_historical_order_path == "/v5/order/history"

\* Bybit.is_rest_response_for_historical_order
bybit_is_rest_response_for_historical_order(rest_response) ==
    rest_response.rest_request.path = bybit_rest_account_fetch_historical_order_path

\* Bybit.convert_rest_response_for_historical_order
bybit_convert_rest_response_for_historical_order(json_deserialized_payload, rest_request) ==
    json_deserialized_payload["result"]["list"]

\* Exchange.rest_on_response of Okx on the response to a fetch_order
\* request: the orders it leaves.  No test before the one for fetch_order
\* holds of a GET on the path of the orders.
okx_rest_on_response(d, rest_response, now) ==
    IF okx_is_rest_response_success(rest_response)
    THEN IF /\ ~okx_is_rest_response_for_create_order(rest_response)
            /\ ~okx_is_rest_response_for_cancel_order(rest_response)
            /\ okx_is_rest_response_for_fetch_order(rest_response)
         THEN update_order(d, okx_convert_rest_response_for_fetch_order(
                                  rest_response.json_deserialized_payload, rest_response.rest_request))
         ELSE d
    ELSE okx_handle_rest_response_for_error_of_fetch_order(d, rest_response, now)

\* Exchange.rest_on_response of Bybit on the response to a fetch_order
\* request: the orders it leaves.  The tests are made in this order; those
\* between fetch_order and historical_order compare the path with the paths
\* of the open orders, the positions and the balances.
bybit_rest_on_response(d, rest_response, now) ==
    IF bybit_is_rest_response_success(rest_response)
    THEN IF \/ bybit_is_rest_response_for_create_order(rest_response)
            \/ bybit_is_rest_response_for_cancel_order(rest_response)
         THEN d
         ELSE IF bybit_is_rest_response_for_fetch_order(rest_response)
         THEN update_order(d, bybit_convert_rest_response_for_fetch_order(
                                  rest_response.json_deserialized_payload, rest_response.rest_request))
         ELSE IF bybit_is_rest_response_for_historical_order(rest_response)
         THEN update_orders(d, bybit_convert_rest_response_for_historical_order(
                                   rest_response.json_deserialized_payload, rest_response.rest_request))
         ELSE d
    ELSE bybit_handle_rest_response_for_error_of_fetch_order(d, rest_response, now)

\* send_rest_request in the fetch_order a periodic check awaits: the venue
\* answers and rest_on_response handles the response
rest_account_fetch_order_answered(name, answer, now) ==
    /\ periodic_tasks[name] = "fetching"
    /\ LET place == Val(check_order_tasks[name]).dispatch
           order == orders[place[1]][place[2]]
       IN  /\ answer \in FetchOrderAnswers(order)
           /\ orders' =
                IF options.name = "okx"
                THEN okx_rest_on_response(
                         orders,
                         okx_fetch_order_response(
                             okx_rest_account_fetch_order_create_rest_request(
                                 order.symbol, order.order_id, order.client_order_id),
                             answer),
                         now)
                ELSE bybit_rest_on_response(
                         orders,
                         bybit_fetch_order_response(
                             bybit_rest_account_fetch_order_create_rest_request(
                                 order.symbol, order.order_id, order.client_order_id),
                             answer, now),
                         now)
    /\ periodic_tasks' = [periodic_tasks EXCEPT ![name] = "answered"]
    /\ UNCHANGED <<stopped, session, websocket_connection_auto_reconnect, websocket_endpoints,
                   websocket_tasks, websocket_connections, connection,
                   websocket_reconnect_delay_seconds, websocket_logged_in_connections, reset_tasks,
                   check_order_tasks, stop_connections, client_session_closed,
                   bbo_vars, position_vars, ohlcv_vars, trade_vars, fill_vars, order_symbols,
                   cancel_orders_task, client_order_id_vars, options, call, balance_vars, pipeline_vars>>

\* the fetch_order that was answered returns and the delay between two
\* requests is slept: the check goes on
rest_account_fetch_order_returns(name) ==
    /\ periodic_tasks[name] = "answered"
    /\ rest_account_check_order_run(name, Val(check_order_tasks[name]))

\* the order of the symbol with these ids is in the cache and not in flight
NotInFlight(symbol, order_id, client_order_id) ==
    LET index == get_order(orders, symbol, order_id, client_order_id)
    IN  index # 0 /\ ~is_in_flight(orders[symbol][index])

\* a session of either adapter after Exchange.__init__
InitInFlight ==
    /\ stopped = FALSE
    /\ session = "constructed"
    /\ websocket_connection_auto_reconnect = TRUE
    /\ websocket_endpoints = {}
    /\ InitSessionState
    /\ InitCacheState
    /\ \E name \in ExchangeNames :
          options = [subscribe_trade |-> DefaultOptions.subscribe_trade,
                     subscribe_fill |-> DefaultOptions.subscribe_fill,
                     is_trade_id_monotonic_increase |-> DefaultOptions.is_trade_id_monotonic_increase,
                     trade_api_method_preference |-> DefaultOptions.trade_api_method_preference,
                     name |-> name]

\* the periodic task of start() that fetches the orders in flight
InFlightCheckTasks == {"check_in_flight_order"}

\* The strategy creates orders and cancels orders that are not in flight;
\* the venue answers every fetch_order of the periodic checks.
NextInFlight ==
    \/ start_websocket_connects
    \/ start_returns
    \/ stop
    \/ stop_returns
    \/ handler_return
    \/ \E order \in OrdersToCreate : create_order(order, None)
    \/ \E symbol \in OrderSymbols, ids \in RequestIds :
          /\ NotInFlight(symbol, ids.order_id, ids.client_order_id)
          /\ cancel_order(symbol, ids.order_id, ids.client_order_id, None)
    \/ \E symbol \in OrderSymbols, index \in 1..MaxOrders : threshold_passes(symbol, index)
    \/ \E name \in InFlightCheckTasks : start_periodic_rest_account_check_order(name)
    \/ \E name \in InFlightCheckTasks, now \in 1..MaxT :
          \E answer \in {None} \cup {Some(record) : record \in VenueOrders} :
              rest_account_fetch_order_answered(name, answer, now)
    \/ \E name \in InFlightCheckTasks : rest_account_fetch_order_returns(name)

\* The event loop runs every task that is ready, time goes by, a sleep ends
\* and the venue answers every request.  What the venue answers and what the
\* caller does is left open.
FairnessInFlight ==
    /\ WF_vars(start_returns)
    /\ WF_vars(stop_returns)
    /\ \A symbol \in OrderSymbols, index \in 1..MaxOrders : WF_vars(threshold_passes(symbol, index))
    /\ \A name \in InFlightCheckTasks :
          /\ WF_vars(start_periodic_rest_account_check_order(name))
          /\ WF_vars(\E now \in 1..MaxT :
                        \E answer \in {None} \cup {Some(record) : record \in VenueOrders} :
                            rest_account_fetch_order_answered(name, answer, now))
          /\ WF_vars(rest_account_fetch_order_returns(name))

SpecInFlight == InitInFlight /\ [][NextInFlight]_vars
SpecInFlightFair == SpecInFlight /\ FairnessInFlight

\* the requests a send_rest_request call may issue in the model
MaxRestRequests == 3

\* Exchange.__init__: the delay between two requests of a paginated fetch
\* (0.05 seconds), in the unit of the model's delays
rest_account_send_consecutive_request_delay_seconds == 1

\* Bybit.__init__
bybit_rest_account_fetch_open_order_path == "/v5/order/realtime"

\* Bybit.rest_account_fetch_open_order_create_rest_request_function, and the
\* request its continuation builds for a cursor
bybit_rest_account_fetch_open_order_create_rest_request(cursor) ==
    [path |-> bybit_rest_account_fetch_open_order_path, method |-> "GET",
     json_payload |-> None,
     query_params |-> Some(IF cursor = None THEN EmptyDict ELSE DictSet(EmptyDict, "cursor", Val(cursor)))]

\* Bybit.is_rest_response_for_fetch_open_order
bybit_is_rest_response_for_fetch_open_order(rest_response) ==
    rest_response.rest_request.path = bybit_rest_account_fetch_open_order_path

\* Bybit.convert_rest_response_for_fetch_open_order
bybit_convert_rest_response_for_fetch_open_order(json_deserialized_payload, rest_request) ==
    json_deserialized_payload["result"]["list"]

\* Bybit.convert_rest_response_for_fetch_open_order_to_next_rest_request_function:
\* the request of the next page, None without a cursor or with an empty one
bybit_convert_rest_response_for_fetch_open_order_to_next_rest_request_function(json_deserialized_payload, rest_request) ==
    LET cursor == dict_get(json_deserialized_payload["result"], "nextPagerCursor")
    IN  IF cursor # None /\ cursor # Some("")
        THEN Some(bybit_rest_account_fetch_open_order_create_rest_request(cursor))
        ELSE None

\* rest_on_response raises on this response: its payload lacks a key the
\* conversions read
rest_on_response_raises(rest_response) ==
    /\ bybit_is_rest_response_success(rest_response)
    /\ "result" \notin DOMAIN rest_response.json_deserialized_payload

\* Exchange.rest_on_response of Bybit on the response to a fetch_open_order
\* request: the orders it leaves and the response it returns, None from the
\* error hook, else with next_rest_request_function and
\* next_rest_request_delay_seconds as handle_rest_response_for_fetch_open_order
\* sets them
rest_on_response_for_fetch_open_order(d, rest_response) ==
    IF bybit_is_rest_response_success(rest_response)
    THEN IF bybit_is_rest_response_for_fetch_open_order(rest_response)
         THEN [open_orders |-> bybit_convert_rest_response_for_fetch_open_order(
                                   rest_response.json_deserialized_payload, rest_response.rest_request),
               orders |-> update_orders(d, bybit_convert_rest_response_for_fetch_open_order(
                                               rest_response.json_deserialized_payload, rest_response.rest_request)),
               rest_response |->
                   Some([next_rest_request_function |->
                             bybit_convert_rest_response_for_fetch_open_order_to_next_rest_request_function(
                                 rest_response.json_deserialized_payload, rest_response.rest_request),
                         next_rest_request_delay_seconds |-> rest_account_send_consecutive_request_delay_seconds])]
         ELSE [open_orders |-> <<>>, orders |-> d,
               rest_response |-> Some([next_rest_request_function |-> None, next_rest_request_delay_seconds |-> 0])]
    ELSE [open_orders |-> <<>>, orders |-> d, rest_response |-> None]

\* send_rest_request: the test that goes on with the chain, the negation of
\* "not rest_response or rest_response.next_rest_request_function is None"
send_rest_request_continues(rest_response) ==
    rest_response # None /\ Val(rest_response).next_rest_request_function # None

\* send_rest_request: the request of the client session, up to the await of
\* the response
send_rest_request_request(task) ==
    [task EXCEPT !.pc = "request", !.outstanding = @ + 1,
                 !.log = Append(@, [event |-> "request", rest_request |-> task.next_rest_request])]

\* the top of the loop without the sleep
send_rest_request_loop_without_sleep(task) == send_rest_request_request(task)

\* send_rest_request: the top of its loop, up to the await of the sleep or of
\* the response
send_rest_request_loop(task) ==
    IF task.next_rest_request_delay_seconds # 0
    THEN [task EXCEPT !.pc = "sleep"]
    ELSE send_rest_request_request(task)

\* rest_account_fetch_open_order, or a caller of send_rest_request that
\* passes delay_seconds: send_rest_request up to its first await
send_rest_request(delay_seconds) ==
    /\ send_rest_request_task.pc = "none"
    /\ send_rest_request_task' =
          send_rest_request_loop(
              [pc |-> "top", outstanding |-> 0, log |-> <<>>,
               next_rest_request |-> bybit_rest_account_fetch_open_order_create_rest_request(None),
               next_rest_request_delay_seconds |-> delay_seconds])
    /\ UNCHANGED <<bbo_vars, position_vars, ohlcv_vars, trade_vars, fill_vars, order_vars, options, call,
                   balance_vars, websocket_frames,
                   stopped, session, websocket_connection_auto_reconnect, websocket_endpoints,
                   websocket_tasks, websocket_connections, connection, websocket_reconnect_delay_seconds,
                   websocket_logged_in_connections, reset_tasks, periodic_tasks, check_order_tasks,
                   stop_connections, client_session_closed>>

\* send_rest_request: its sleep is over
send_rest_request_sleep_returns ==
    /\ send_rest_request_task.pc = "sleep"
    /\ send_rest_request_task' =
          send_rest_request_request(
              [send_rest_request_task EXCEPT
                  !.log = Append(@, [event |-> "sleep", seconds |-> send_rest_request_task.next_rest_request_delay_seconds])])
    /\ UNCHANGED <<bbo_vars, position_vars, ohlcv_vars, trade_vars, fill_vars, order_vars, options, call,
                   balance_vars, websocket_frames,
                   stopped, session, websocket_connection_auto_reconnect, websocket_endpoints,
                   websocket_tasks, websocket_connections, connection, websocket_reconnect_delay_seconds,
                   websocket_logged_in_connections, reset_tasks, periodic_tasks, check_order_tasks,
                   stop_connections, client_session_closed>>

\* send_rest_request: the request of the client session raises (no
\* connection, timeout); the exception leaves send_rest_request
send_rest_request_request_raises ==
    /\ send_rest_request_task.pc = "request"
    /\ send_rest_request_task' =
          [send_rest_request_task EXCEPT
              !.pc = "raised", !.outstanding = @ - 1, !.log = Append(@, [event |-> "request raised"])]
    /\ UNCHANGED <<bbo_vars, position_vars, ohlcv_vars, trade_vars, fill_vars, order_vars, options, call,
                   balance_vars, websocket_frames,
                   stopped, session, websocket_connection_auto_reconnect, websocket_endpoints,
                   websocket_tasks, websocket_connections, connection, websocket_reconnect_delay_seconds,
                   websocket_logged_in_connections, reset_tasks, periodic_tasks, check_order_tasks,
                   stop_connections, client_session_closed>>

\* send_rest_request: the response is there; rest_on_response handles it and
\* the loop breaks or goes on, up to the next await
send_rest_request_on_response(status_code, json_deserialized_payload) ==
    /\ send_rest_request_task.pc = "request"
    /\ LET rest_response ==
               RestResponse(send_rest_request_task.next_rest_request, status_code, json_deserialized_payload)
           task == [send_rest_request_task EXCEPT !.outstanding = @ - 1]
       IN  IF rest_on_response_raises(rest_response)
           THEN /\ send_rest_request_task' =
                      [task EXCEPT !.pc = "returned",
                                   !.log = Append(@, [event |-> "handling raised", rest_response |-> rest_response])]
                /\ orders' = orders
                /\ order_symbols' = order_symbols
           ELSE LET handled == rest_on_response_for_fetch_open_order(orders, rest_response)
                    logged == [task EXCEPT !.log = Append(@, [event |-> "response", rest_response |-> rest_response,
                                                              before |-> orders])]
                IN  /\ orders' = handled.orders
                    /\ order_symbols' =
                          dict_keys_after(order_symbols,
                                          [i \in 1..Len(handled.open_orders) |-> handled.open_orders[i].symbol])
                    /\ send_rest_request_task' =
                          IF send_rest_request_continues(handled.rest_response)
                          THEN send_rest_request_loop(
                                   [logged EXCEPT
                                       !.next_rest_request = Val(Val(handled.rest_response).next_rest_request_function),
                                       !.next_rest_request_delay_seconds =
                                           Val(handled.rest_response).next_rest_request_delay_seconds])
                          ELSE [logged EXCEPT !.pc = "returned"]
    /\ UNCHANGED <<bbo_vars, position_vars, ohlcv_vars, trade_vars, fill_vars, cancel_orders_task,
                   client_order_id_vars, options, call, balance_vars, websocket_frames,
                   stopped, session, websocket_connection_auto_reconnect, websocket_endpoints,
                   websocket_tasks, websocket_connections, connection, websocket_reconnect_delay_seconds,
                   websocket_logged_in_connections, reset_tasks, periodic_tasks, check_order_tasks,
                   stop_connections, client_session_closed>>

\* the requests send_rest_request has issued
RequestsIssued(task) == Cardinality({i \in 1..Len(task.log) : task.log[i].event = "request"})

\* the pages of open orders the venue answers with
OpenOrderPages ==
    {<<>>} \cup
    {<<order>> : order \in {o \in VenueOrders :
                                /\ o.status \in {Some(NEW_), Some(PARTIALLY_FILLED)}
                                /\ o.cumulative_filled_quantity \in {None, Some("0.5")}
                                /\ o.exchange_update_time_point = Some(1)}}

\* the payloads of the venue: a page with or without a cursor, an error, and
\* a payload without result
FetchOpenOrderPayloads ==
    {[retCode |-> 0, result |-> [list |-> page, nextPagerCursor |-> Some(cursor)]] :
        page \in OpenOrderPages, cursor \in {"", "c1"}}
    \cup {[retCode |-> 0, result |-> [list |-> page]] : page \in OpenOrderPages}
    \cup {[retCode |-> 10001], [retCode |-> 0]}

\* the venue names a next page in the first MaxRestRequests - 1 responses
WithinMaxRestRequests(json_deserialized_payload) ==
    IF RequestsIssued(send_rest_request_task) < MaxRestRequests
    THEN TRUE
    ELSE IF "result" \notin DOMAIN json_deserialized_payload
         THEN TRUE
         ELSE dict_get(json_deserialized_payload["result"], "nextPagerCursor") \in {None, Some("")}

NextRestRequest ==
    \/ \E delay_seconds \in {0, 1} : send_rest_request(delay_seconds)
    \/ send_rest_request_sleep_returns
    \/ send_rest_request_request_raises
    \/ \E status_code \in {200, 500}, json_deserialized_payload \in FetchOpenOrderPayloads :
          /\ send_rest_request_task.pc = "request"
          /\ WithinMaxRestRequests(json_deserialized_payload)
          /\ send_rest_request_on_response(status_code, json_deserialized_payload)

SpecRestRequest == Init /\ [][NextRestRequest]_vars

\* the loop over the frames of a connection -------------------------------

\* the frames the model lets arrive on the connections of a session
MaxFrames == 3

\* aiohttp.WSMsgType, the types the loop of start_websocket_connect tells apart
WSMsgTypes == {"TEXT", "BINARY", "ERROR"}

\* what the data of a TEXT frame is to websocket_on_message: push data, the
\* response to the login or to a subscribe request, or data that the
\* deserialization of the adapter raises on
FrameData == {"push", "login", "subscribe", "malformed"}

Frames ==
    {[type |-> "TEXT", data |-> data] : data \in FrameData}
        \cup {[type |-> type, data |-> ""] : type \in WSMsgTypes \ {"TEXT"}}

\* the frames that arrived on the connection and make the handler call
\* reset_websocket_reconnect_delay
ResetFramesArrived(e) ==
    Cardinality({i \in 1..Len(websocket_frames[e].arrived) :
                    websocket_frames[e].arrived[i].data \in {"login", "subscribe"}})

\* the frames that have arrived so far
FramesArrived == websocket_frames["market_data"].count + websocket_frames["account"].count

frame_loop_unchanged ==
    <<bbo_vars, position_vars, balance_vars, ohlcv_vars, trade_vars, fill_vars, order_vars, options, call,
      send_rest_request_task, stopped, session, websocket_connection_auto_reconnect, websocket_endpoints,
      periodic_tasks, check_order_tasks, stop_connections, client_session_closed>>

\* the venue sends a frame on an open connection; aiohttp queues it for the
\* "async for" of start_websocket_connect
websocket_frame_arrives(e, frame) ==
    /\ websocket_tasks[e] = "open"
    /\ ~connection[e].closed
    /\ FramesArrived < MaxFrames
    /\ frame.data = "login" =>
          /\ e = "account"
          /\ connection[e].sent = <<"login">>
    /\ frame.data = "subscribe" =>
          /\ connection[e].sent # <<>>
          /\ connection[e].sent[Len(connection[e].sent)] = "subscribe"
    /\ frame.data \in {"login", "subscribe"} =>
          /\ reset_tasks[e] + ResetFramesArrived(e) < MaxResetTasks
          /\ \A other \in websocket_frames[e].handling : other.data # "login"
    /\ websocket_frames' = [websocket_frames EXCEPT
          ![e].count = @ + 1,
          ![e].arrived = Append(@, [n |-> websocket_frames[e].count + 1, type |-> frame.type,
                                    data |-> frame.data])]
    /\ UNCHANGED <<frame_loop_unchanged, websocket_tasks, websocket_connections, connection,
                   websocket_reconnect_delay_seconds, websocket_logged_in_connections, reset_tasks>>

\* the variant that reads the next frame while a handler is suspended
start_websocket_connect_loop_ready_always(e) == TRUE

\* start_websocket_connect: "async for" asks the connection for its next
\* frame only when the body of the loop is over, the await of
\* websocket_on_message included
start_websocket_connect_loop_ready(e) == websocket_frames[e].handling = {}

\* the variant in which the exception leaves the loop over the frames and
\* with it "async with ws_connect"
start_websocket_connect_except_leaves(websocket_connection) ==
    [websocket_connection EXCEPT !.closed = TRUE]

\* start_websocket_connect: "except Exception" around websocket_on_message
\* logs the exception; the connection as the clause leaves it
start_websocket_connect_except(websocket_connection) == websocket_connection

\* the history of a frame whose handling has raised
frame_raised(frames, frame) ==
    [frames EXCEPT !.handling = @ \ {frame}, !.ended = Append(@, frame.n), !.raised = @ \cup {frame.n}]

\* start_websocket_connect: the loop takes the next frame.  A TEXT frame
\* stamps the connection and goes to websocket_on_message, which runs up
\* to the await it is suspended in, or raises before it; an ERROR frame
\* leaves the loop; any other frame is passed over.
start_websocket_connect_next_frame(e) ==
    /\ websocket_tasks[e] = "open"
    /\ ~connection[e].closed
    /\ websocket_frames[e].arrived # <<>>
    /\ start_websocket_connect_loop_ready(e)
    /\ LET frame == Head(websocket_frames[e].arrived)
           taken == [websocket_frames[e] EXCEPT !.arrived = Tail(@)]
           stamped == [connection[e] EXCEPT !.received = TRUE, !.silent = FALSE]
       IN  IF frame.type = "TEXT"
           THEN IF frame.data = "malformed"
                THEN /\ websocket_frames' = [websocket_frames EXCEPT
                           ![e] = frame_raised([taken EXCEPT !.begun = Append(@, frame.n)], frame)]
                     /\ connection' = [connection EXCEPT ![e] = start_websocket_connect_except(stamped)]
                     /\ UNCHANGED <<websocket_logged_in_connections, reset_tasks>>
                ELSE /\ websocket_frames' = [websocket_frames EXCEPT
                           ![e] = [taken EXCEPT !.begun = Append(@, frame.n), !.handling = @ \cup {frame}]]
                     /\ connection' = [connection EXCEPT
                           ![e] = [stamped EXCEPT
                                      !.sent = IF frame.data = "login" THEN Append(@, "subscribe") ELSE @]]
                     /\ websocket_logged_in_connections' =
                           IF frame.data = "login"
                           THEN websocket_logged_in_connections \cup {e}
                           ELSE websocket_logged_in_connections
                     /\ reset_tasks' =
                           IF frame.data \in {"login", "subscribe"}
                           THEN [reset_tasks EXCEPT ![e] = @ + 1]
                           ELSE reset_tasks
           ELSE /\ websocket_frames' = [websocket_frames EXCEPT ![e] = taken]
                /\ connection' = [connection EXCEPT ![e].closed = (frame.type = "ERROR") \/ @]
                /\ UNCHANGED <<websocket_logged_in_connections, reset_tasks>>
    /\ UNCHANGED <<frame_loop_unchanged, websocket_tasks, websocket_connections,
                   websocket_reconnect_delay_seconds>>

\* websocket_on_message: the await the handler of a frame is suspended in
\* returns, and the handler runs to its end
websocket_on_message_returns(e) ==
    /\ websocket_tasks[e] = "open"
    /\ \E frame \in websocket_frames[e].handling :
          websocket_frames' = [websocket_frames EXCEPT
              ![e].handling = @ \ {frame}, ![e].ended = Append(@, frame.n)]
    /\ UNCHANGED <<frame_loop_unchanged, websocket_tasks, websocket_connections, connection,
                   websocket_reconnect_delay_seconds, websocket_logged_in_connections, reset_tasks>>

\* websocket_on_message: the handler of a frame raises after the await it
\* was suspended in
websocket_on_message_raises(e) ==
    /\ websocket_tasks[e] = "open"
    /\ \E frame \in websocket_frames[e].handling :
          websocket_frames' = [websocket_frames EXCEPT ![e] = frame_raised(@, frame)]
    /\ connection' = [connection EXCEPT ![e] = start_websocket_connect_except(@)]
    /\ UNCHANGED <<frame_loop_unchanged, websocket_tasks, websocket_connections,
                   websocket_reconnect_delay_seconds, websocket_logged_in_connections, reset_tasks>>

\* start_websocket_connect: the iteration over the frames is over because
\* the connection is closed; the frames it has not read go with the
\* connection; websocket_on_disconnected, then sleep or leave
start_websocket_connect_frames_end(e) ==
    /\ websocket_tasks[e] = "open"
    /\ connection[e].closed
    /\ start_websocket_connect_loop_ready(e)
    /\ websocket_frames' = [websocket_frames EXCEPT ![e].arrived = <<>>]
    /\ websocket_connections' = websocket_connections \ {e}
    /\ websocket_logged_in_connections' = websocket_logged_in_connections \ {e}
    /\ websocket_reconnect_or_break(e)
    /\ UNCHANGED <<frame_loop_unchanged, connection, reset_tasks>>

NextFrames ==
    \/ start_websocket_connects
    \/ start_returns
    \/ \E e \in Endpoints : start_websocket_connect_attempt(e)
    \/ \E e \in Endpoints : websocket_on_connected(e)
    \/ \E e \in Endpoints, frame \in Frames : websocket_frame_arrives(e, frame)
    \/ \E e \in Endpoints : start_websocket_connect_next_frame(e)
    \/ \E e \in Endpoints : websocket_on_message_returns(e)
    \/ \E e \in Endpoints : websocket_on_message_raises(e)
    \/ \E e \in Endpoints : reset_websocket_reconnect_delay(e)
    \/ \E e \in Endpoints : websocket_connection_lost(e)
    \/ \E e \in Endpoints : start_websocket_connect_frames_end(e)

\* sessions with both streams, and sessions that reconnect their one stream
InitFrames ==
    /\ InitSessions
    /\ websocket_connection_auto_reconnect => websocket_endpoints = {"market_data"}

SpecFrames == InitFrames /\ [][NextFrames]_vars

\* the identity of the orders in the cache --------------------------------

\* the orders of the account at the venue, each under its order id and its
\* client order id: the orders that create_order sends, which carry the ids
\* the session generates, and an order placed by an earlier run, still open
\* when the session begins
VenueOrderBook ==
    {[order_id |-> "o1", client_order_id |-> "1000"],
     [order_id |-> "o2", client_order_id |-> "1001"],
     [order_id |-> "o9", client_order_id |-> "x9"]}

\* the order of the book that carries the client order id
VenueOrderOf(client_order_id) ==
    CHOOSE venue_order \in VenueOrderBook : venue_order.client_order_id = client_order_id

\* Okx.convert_rest_response_for_create_order
okx_convert_rest_response_for_create_order(json_deserialized_payload, rest_request) ==
    LET x == json_deserialized_payload["data"][1]
    IN  [symbol |-> Val(rest_request.json_payload)["instId"],
         exchange_update_time_point |-> Some(x["ts"]),
         order_id |-> Some(x["ordId"]),
         client_order_id |-> dict_get(Val(rest_request.json_payload), "clOrdId"),
         margin_asset |-> None,
         cumulative_filled_quantity |-> None,
         local_update_time_point |-> None,
         status |-> Some(CREATE_ACKNOWLEDGED)]

\* Okx.convert_rest_response_for_cancel_order
okx_convert_rest_response_for_cancel_order(json_deserialized_payload, rest_request) ==
    LET x == json_deserialized_payload["data"][1]
    IN  [symbol |-> Val(rest_request.json_payload)["instId"],
         exchange_update_time_point |-> Some(x["ts"]),
         order_id |-> dict_get(Val(rest_request.json_payload), "ordId"),
         client_order_id |-> dict_get(Val(rest_request.json_payload), "clOrdId"),
         margin_asset |-> None,
         cumulative_filled_quantity |-> None,
         local_update_time_point |-> None,
         status |-> Some(CANCEL_ACKNOWLEDGED)]

\* the order create_order has appended and waits for the answer to
order_to_create == orders[call.arg.symbol][Len(orders[call.arg.symbol])]

\* create_order: the answer to the request it awaits in send_rest_request
\* is a success; rest_on_response converts it and updates the cache
create_order_rest_response(ts) ==
    /\ call # Idle
    /\ call.op = "create_order"
    /\ call.api_method = REST
    /\ LET venue_order == VenueOrderOf(Val(order_to_create.client_order_id))
           rest_request == okx_rest_account_create_order_create_rest_request(order_to_create)
           json_deserialized_payload ==
               [code |-> "0", data |-> <<[ordId |-> venue_order.order_id, ts |-> ts]>>]
       IN  orders' = update_order(orders,
                         okx_convert_rest_response_for_create_order(json_deserialized_payload, rest_request))
    /\ call' = Idle
    /\ UNCHANGED <<bbo_vars, position_vars, ohlcv_vars, trade_vars, fill_vars, order_symbols, cancel_orders_task,
                   client_order_id_vars, options, balance_vars, session_vars>>

\* the orders of the book that a request naming order_id, or client_order_id
\* when it names no order_id, is about
VenueOrdersNamed(order_id, client_order_id) ==
    {venue_order \in VenueOrderBook :
        IF order_id # None
        THEN Some(venue_order.order_id) = order_id
        ELSE Some(venue_order.client_order_id) = client_order_id}

\* cancel_order: the answer to the request it awaits in send_rest_request is
\* a success; rest_on_response converts it and updates the cache
cancel_order_rest_response(ts) ==
    /\ call # Idle
    /\ call.op = "cancel_order"
    /\ call.api_method = REST
    /\ \E venue_order \in VenueOrdersNamed(call.arg.order_id, call.arg.client_order_id) :
          LET rest_request ==
                  okx_rest_account_cancel_order_create_rest_request(call.arg.symbol, call.arg.order_id,
                                                                    call.arg.client_order_id)
              json_deserialized_payload ==
                  [code |-> "0",
                   data |-> <<[ordId |-> venue_order.order_id, clOrdId |-> venue_order.client_order_id,
                               ts |-> ts]>>]
              order == okx_convert_rest_response_for_cancel_order(json_deserialized_payload, rest_request)
          IN  /\ orders' = update_order(orders, order)
              /\ order_symbols' = dict_keys_after(order_symbols, <<order.symbol>>)
    /\ call' = Idle
    /\ UNCHANGED <<bbo_vars, position_vars, ohlcv_vars, trade_vars, fill_vars, cancel_orders_task,
                   client_order_id_vars, options, balance_vars, session_vars>>

\* the orders of every symbol in the cache
OrdersIn(d) == UNION {{d[symbol][i] : i \in 1..Len(d[symbol])} : symbol \in DOMAIN d}

\* the client order ids the session has sent to the venue with a create request
ClientOrderIdsSent == {order.client_order_id : order \in OrdersIn(orders)}

\* the records of its orders that the venue pushes: an order under the ids
\* of the book, once the venue has it
VenueOrderPushes ==
    {[symbol |-> symbol,
      exchange_update_time_point |-> Some(t),
      order_id |-> Some(venue_order.order_id),
      client_order_id |-> Some(venue_order.client_order_id),
      margin_asset |-> None,
      cumulative_filled_quantity |-> None,
      local_update_time_point |-> None,
      status |-> Some(status)] :
        symbol \in OrderSymbols, t \in 1..MaxT, status \in {NEW_, CANCELED},
        venue_order \in {v \in VenueOrderBook :
                            v.order_id = "o9" \/ Some(v.client_order_id) \in ClientOrderIdsSent}}

\* the ids a strategy names an order by when it cancels it: an order it finds
\* in the cache, or the order of the earlier run, whose ids it has kept
CancelOrderIds ==
    {[order_id |-> Some("o9"), client_order_id |-> None],
     [order_id |-> None, client_order_id |-> Some("x9")]}
        \cup {[order_id |-> order.order_id, client_order_id |-> None] :
                 order \in {o \in OrdersIn(orders) : o.order_id # None}}
        \cup {[order_id |-> None, client_order_id |-> order.client_order_id] :
                 order \in {o \in OrdersIn(orders) : o.client_order_id # None}}

NextOrderIdentity ==
    \/ handler_return
    \/ \E order \in {o \in OrdersToCreate : o.client_order_id = None} : create_order(order, None)
    \/ \E ts \in 1..MaxT : create_order_rest_response(ts)
    \/ \E symbol \in OrderSymbols, ids \in CancelOrderIds :
          cancel_order(symbol, ids.order_id, ids.client_order_id, None)
    \/ \E ts \in 1..MaxT : cancel_order_rest_response(ts)
    \/ \E order \in VenueOrderPushes : update_websocket_push_data_for_order(<<order>>)

SpecOrderIdentity == Init /\ [][NextOrderIdentity]_vars

\* the status of the orders the venue reports ------------------------------

\* Okx.__init__: order_status_mapping
okx_order_status_mapping ==
    DictSet(DictSet(DictSet(DictSet(DictSet(EmptyDict,
        "canceled", Some(CANCELED)),
        "live", Some(NEW_)),
        "partially_filled", Some(PARTIALLY_FILLED)),
        "filled", Some(FILLED)),
        "mmp_canceled", Some(CANCELED))

\* value or None
or_None(value) == IF value = "" THEN None ELSE Some(value)

\* Okx.convert_dict_to_order: status=self.order_status_mapping.get(input["state"])
okx_convert_dict_to_order_status(input) == dict_get(okx_order_status_mapping, input["state"])

\* Okx.convert_dict_to_order
okx_convert_dict_to_order(input, symbol) ==
    [symbol |-> symbol,
     exchange_update_time_point |-> Some(input["uTime"]),
     order_id |-> dict_get(input, "ordId"),
     client_order_id |-> dict_get(input, "clOrdId"),
     margin_asset |-> None,
     cumulative_filled_quantity |-> or_None(input["accFillSz"]),
     local_update_time_point |-> None,
     status |-> okx_convert_dict_to_order_status(input)]

\* the states of an order in the records of OKX: those of the mapping, and
\* a state that the mapping does not hold
OkxOrderStates == DOMAIN okx_order_status_mapping \cup {"other"}

\* the records of the order with client order id 1000 that OKX sends in the
\* pushes of the orders channel and in the answers to fetch_order
OkxOrderRecords ==
    {[instId |-> symbol, uTime |-> uTime, ordId |-> Some("o1"), clOrdId |-> Some("1000"),
      accFillSz |-> accFillSz, state |-> state] :
        symbol \in OrderSymbols, uTime \in 1..MaxT, accFillSz \in {"", "0.5"}, state \in OkxOrderStates}

NextOrderStatus ==
    \/ handler_return
    \/ \E order \in {o \in OrdersToCreate : o.client_order_id = None} : create_order(order, None)
    \/ \E input \in OkxOrderRecords :
          update_websocket_push_data_for_order(<<okx_convert_dict_to_order(input, input["instId"])>>)
    \/ \E input \in OkxOrderRecords :
          update_rest_response_for_fetch_order(okx_convert_dict_to_order(input, input["instId"]))

SpecOrderStatus == Init /\ [][NextOrderStatus]_vars

\* the subscribe frames of the market data streams ------------------------

\* the greatest websocket_market_data_channel_symbols_limit of the sessions
MaxSymbolsLimit == 2

\* the symbols a session is constructed with
SubscribeSymbols == {"BTC", "ETH", "SOL"}

\* list(input) of a set: its elements, each once, in the order in which the
\* set iterates, which the build chooses
ListsOf(S) ==
    {list \in [1..Cardinality(S) -> S] : \A i, j \in 1..Cardinality(S) : list[i] = list[j] => i = j}

\* utility.convert_set_to_subsets, with input_list for list(input)
convert_set_to_subsets(input_list, subset_length) ==
    IF subset_length # None /\ Val(subset_length) # 0
    THEN [i \in 1..((Len(input_list) + Val(subset_length) - 1) \div Val(subset_length)) |->
             {input_list[j] : j \in {k \in 1..Len(input_list) :
                                        /\ k > (i - 1) * Val(subset_length)
                                        /\ k <= i * Val(subset_length)}}]
    ELSE <<{input_list[j] : j \in 1..Len(input_list)}>>

\* Okx.__init__: the paths of the two market data streams and the channels
okx_websocket_market_data_path == "/ws/v5/public"
okx_websocket_market_data_path_2 == "/ws/v5/business"
okx_websocket_market_data_channel_bbo == "bbo-tbt"
okx_websocket_market_data_channel_trade == "trades"
okx_websocket_market_data_channel_ohlcv == "candle"

\* Bybit.__init__, of the spot instruments; the channel of the candles is
\* followed by their interval
bybit_websocket_market_data_path == "/v5/public/spot"
bybit_websocket_market_data_channel_bbo == "orderbook.1."
bybit_websocket_market_data_channel_trade == "publicTrade."
bybit_websocket_market_data_channel_ohlcv == "kline."

\* Okx.websocket_market_data_update_subscribe_create_websocket_request_for_bbo_trade:
\* the args of the frame
okx_websocket_market_data_update_subscribe_create_websocket_request_for_bbo_trade(symbols) ==
    {[channel |-> okx_websocket_market_data_channel_bbo, instId |-> symbol] :
        symbol \in IF options.subscribe_bbo THEN symbols ELSE {}}
    \cup {[channel |-> okx_websocket_market_data_channel_trade, instId |-> symbol] :
        symbol \in IF options.subscribe_trade THEN symbols ELSE {}}

\* Okx.websocket_market_data_update_subscribe_create_websocket_request_for_ohlcv:
\* the args of the frame; the loop is over self.symbols
okx_websocket_market_data_update_subscribe_create_websocket_request_for_ohlcv(symbols) ==
    {[channel |-> okx_websocket_market_data_channel_ohlcv, instId |-> symbol] : symbol \in options.symbols}

\* Bybit.websocket_market_data_update_subscribe_create_websocket_request:
\* the args of the frame, a topic by its channel and its symbol
bybit_websocket_market_data_update_subscribe_create_websocket_request(symbols) ==
    {[channel |-> bybit_websocket_market_data_channel_bbo, instId |-> symbol] :
        symbol \in IF options.subscribe_bbo THEN symbols ELSE {}}
    \cup {[channel |-> bybit_websocket_market_data_channel_trade, instId |-> symbol] :
        symbol \in IF options.subscribe_trade THEN symbols ELSE {}}
    \cup {[channel |-> bybit_websocket_market_data_channel_ohlcv, instId |-> symbol] :
        symbol \in IF options.subscribe_ohlcv THEN symbols ELSE {}}

\* websocket_market_data_connect of the adapter: the paths of the market data
\* streams that the session connects to
websocket_market_data_paths ==
    IF options.symbols = {} THEN {}
    ELSE IF options.name = "okx"
         THEN (IF options.subscribe_bbo \/ options.subscribe_trade THEN {okx_websocket_market_data_path} ELSE {})
              \cup (IF options.subscribe_ohlcv THEN {okx_websocket_market_data_path_2} ELSE {})
         ELSE IF options.subscribe_bbo \/ options.subscribe_trade \/ options.subscribe_ohlcv
              THEN {bybit_websocket_market_data_path} ELSE {}

\* the frame that handle_websocket_on_connected of the adapter sends for a
\* subset of the symbols on the stream of the path
websocket_market_data_subscribe_frame(path, symbols_subset) ==
    IF path = okx_websocket_market_data_path
    THEN okx_websocket_market_data_update_subscribe_create_websocket_request_for_bbo_trade(symbols_subset)
    ELSE IF path = okx_websocket_market_data_path_2
         THEN okx_websocket_market_data_update_subscribe_create_websocket_request_for_ohlcv(symbols_subset)
         ELSE bybit_websocket_market_data_update_subscribe_create_websocket_request(symbols_subset)

\* Exchange.websocket_market_data_subscribe and the two of Okx, on a
\* connect or a reconnect of the stream of the path: one frame for each
\* subset, in their order
websocket_market_data_subscribe(path, input_list) ==
    /\ call = Idle
    /\ path \in websocket_market_data_paths
    /\ input_list \in ListsOf(options.symbols)
    /\ LET symbols_subsets ==
               convert_set_to_subsets(input_list, options.websocket_market_data_channel_symbols_limit)
       IN  call' = [op |-> "websocket_market_data_subscribe", arg |-> path, before |-> input_list,
                    sent |-> [i \in 1..Len(symbols_subsets) |->
                                 websocket_market_data_subscribe_frame(path, symbols_subsets[i])]]
    /\ UNCHANGED <<bbo_vars, position_vars, ohlcv_vars, trade_vars, fill_vars, order_vars, options,
                   balance_vars, session_vars>>

\* the sessions: an adapter, its symbols, its limit and its market data
\* channels, of which it subscribes to one at least
InitSubscribe ==
    /\ InitSession
    /\ InitCacheState
    /\ \E name \in ExchangeNames, symbols \in (SUBSET SubscribeSymbols) \ {{}},
          limit \in {None} \cup {Some(n) : n \in 1..MaxSymbolsLimit},
          subscribe_bbo \in BOOLEAN, subscribe_trade \in BOOLEAN, subscribe_ohlcv \in BOOLEAN :
          /\ subscribe_bbo \/ subscribe_trade \/ subscribe_ohlcv
          /\ options = [subscribe_trade |-> subscribe_trade,
                        subscribe_fill |-> DefaultOptions.subscribe_fill,
                        is_trade_id_monotonic_increase |-> DefaultOptions.is_trade_id_monotonic_increase,
                        trade_api_method_preference |-> DefaultOptions.trade_api_method_preference,
                        name |-> name, symbols |-> symbols,
                        websocket_market_data_channel_symbols_limit |-> limit,
                        subscribe_bbo |-> subscribe_bbo, subscribe_ohlcv |-> subscribe_ohlcv]

NextSubscribe ==
    \/ handler_return
    \/ \E path \in {okx_websocket_market_data_path, okx_websocket_market_data_path_2,
                    bybit_websocket_market_data_path} :
          \E input_list \in ListsOf(options.symbols) : websocket_market_data_subscribe(path, input_list)

SpecSubscribe == InitSubscribe /\ [][NextSubscribe]_vars

\* the rounding to the multiples of an increment ----------------------------

\* A Decimal of the inputs is a count of tenths: 3 is Decimal("0.3").  A
\* float is [sign, m, e], the binary64 number sign * m * 2^e with a
\* significand m of 53 bits, or of 0 for 0.0; m is a natural below 2^60,
\* written in two digits of 30 bits as [hi, lo].

\* the greatest input of the roundings, in tenths
MaxRoundInput == 12

\* the increments of the roundings, in tenths: 0.1, 0.2, 0.5 and 1
RoundIncrements == {1, 2, 5, 10}

nat(n) == [hi |-> 0, lo |-> n]
nat_is_zero(n) == n.hi = 0 /\ n.lo = 0
nat_less(a, b) == a.hi < b.hi \/ (a.hi = b.hi /\ a.lo < b.lo)
nat_minus(a, b) ==
    IF a.lo >= b.lo
    THEN [hi |-> a.hi - b.hi, lo |-> a.lo - b.lo]
    ELSE [hi |-> a.hi - b.hi - 1, lo |-> (a.lo - b.lo) + 2^30]
nat_twice_plus(n, bit) ==
    [hi |-> 2 * n.hi + ((2 * n.lo + bit) \div 2^30), lo |-> (2 * n.lo + bit) % 2^30]
nat_half(n) == [hi |-> n.hi \div 2, lo |-> (n.lo \div 2) + (n.hi % 2) * 2^29]
nat_plus_one(n) ==
    IF n.lo + 1 = 2^30 THEN [hi |-> n.hi + 1, lo |-> 0] ELSE [hi |-> n.hi, lo |-> n.lo + 1]
nat_bit(n, i) == IF i >= 30 THEN (n.hi \div 2^(i - 30)) % 2 ELSE (n.lo \div 2^i) % 2

\* one step of the long division of a by b: the next bit of the quotient q
\* and the rest r, from bit e - 1 of a, or from a 0 below the binary point;
\* the division ends when the quotient has 54 bits
float_divide_step(d) ==
    IF d.q.hi >= 2^23
    THEN d
    ELSE LET shifted == nat_twice_plus(d.r, IF d.e > 0 THEN nat_bit(d.a, d.e - 1) ELSE 0)
         IN  IF nat_less(shifted, d.b)
             THEN [a |-> d.a, b |-> d.b, q |-> nat_twice_plus(d.q, 0), r |-> shifted, e |-> d.e - 1]
             ELSE [a |-> d.a, b |-> d.b, q |-> nat_twice_plus(d.q, 1), r |-> nat_minus(shifted, d.b),
                   e |-> d.e - 1]

\* eight steps of the long division
float_divide_steps(d) ==
    CHOOSE d8 \in {float_divide_step(d7) : d7 \in {float_divide_step(d6) : d6 \in
                   {float_divide_step(d5) : d5 \in {float_divide_step(d4) : d4 \in
                   {float_divide_step(d3) : d3 \in {float_divide_step(d2) : d2 \in
                   {float_divide_step(d1) : d1 \in {float_divide_step(d)}}}}}}}} : TRUE

\* the long division of a by b (0 < a < 2^53, 0 < b < 2^53), continued
\* below the binary point until the quotient q has 54 bits;
\* a / b = (q + r / b) * 2^e
RECURSIVE float_divide_bits(_)
float_divide_bits(d) ==
    IF d.q.hi >= 2^23
    THEN d
    ELSE CHOOSE bits \in {float_divide_bits(next) : next \in {float_divide_steps(d)}} : TRUE

\* the binary64 number nearest to a / b, the ties to the even significand
\* (the rounding of IEEE 754 that float() and the / of floats apply)
float_round(d) ==
    LET m == nat_half(d.q)
        up == d.q.lo % 2 = 1 /\ (~nat_is_zero(d.r) \/ m.lo % 2 = 1)
        rounded == IF up THEN nat_plus_one(m) ELSE m
    IN  IF rounded.hi >= 2^23
        THEN [m |-> nat_half(rounded), e |-> d.e + 2]
        ELSE [m |-> rounded, e |-> d.e + 1]

float_divide(a, b) ==
    CHOOSE x \in {float_round(d) : d \in {float_divide_bits([a |-> a, b |-> b, q |-> nat(0), r |-> nat(0), e |-> 53])}} : TRUE

\* float(input) of a Decimal or of its string
float(decimal) ==
    IF decimal = 0
    THEN [sign |-> 1, m |-> nat(0), e |-> 0]
    ELSE CHOOSE x \in {[sign |-> IF decimal < 0 THEN 0 - 1 ELSE 1, m |-> d.m, e |-> d.e] :
                          d \in {float_divide(nat(IF decimal < 0 THEN 0 - decimal ELSE decimal), nat(10))}} : TRUE

\* x / y of two floats, y not 0.0
float_truediv(x, y) ==
    IF nat_is_zero(x.m)
    THEN [sign |-> 1, m |-> nat(0), e |-> 0]
    ELSE CHOOSE z \in {[sign |-> x.sign * y.sign, m |-> d.m, e |-> d.e + x.e - y.e] :
                          d \in {float_divide(x.m, y.m)}} : TRUE

\* one step of the shift of m by k bits to the right: the last bit that left
\* m, and whether a bit that left before it was set
float_shift_step(s) ==
    IF s.k <= 0
    THEN s
    ELSE [m |-> nat_half(s.m), k |-> s.k - 1, bit |-> s.m.lo % 2, sticky |-> s.sticky \/ s.bit = 1]

\* eight steps of the shift
float_shift_steps(s) ==
    CHOOSE s8 \in {float_shift_step(s7) : s7 \in {float_shift_step(s6) : s6 \in
                   {float_shift_step(s5) : s5 \in {float_shift_step(s4) : s4 \in
                   {float_shift_step(s3) : s3 \in {float_shift_step(s2) : s2 \in
                   {float_shift_step(s1) : s1 \in {float_shift_step(s)}}}}}}}} : TRUE

\* the whole part of m * 2^(-k), the first bit after the binary point and
\* whether a later bit is set
RECURSIVE float_shift_right(_)
float_shift_right(s) ==
    IF s.k <= 0
    THEN [whole |-> s.m.hi * 2^30 + s.m.lo, bit |-> s.bit, sticky |-> s.sticky]
    ELSE CHOOSE parts \in {float_shift_right(next) : next \in {float_shift_steps(s)}} : TRUE

\* the magnitude of a float below 2^30 in its parts
float_parts(x) == float_shift_right([m |-> x.m, k |-> 0 - x.e, bit |-> 0, sticky |-> FALSE])

\* round(x) of a float, an int: the nearest integer, the halves to the even
round(x) ==
    LET parts == float_parts(x)
    IN  x.sign * (parts.whole
                  + IF parts.bit = 1 /\ (parts.sticky \/ parts.whole % 2 = 1) THEN 1 ELSE 0)

\* math.floor(x) and math.ceil(x) of a float
floor(x) ==
    LET parts == float_parts(x)
    IN  IF x.sign > 0 \/ (parts.bit = 0 /\ ~parts.sticky)
        THEN x.sign * parts.whole
        ELSE 0 - (parts.whole + 1)

ceil(x) ==
    LET parts == float_parts(x)
    IN  IF x.sign < 0 \/ (parts.bit = 0 /\ ~parts.sticky)
        THEN x.sign * parts.whole
        ELSE parts.whole + 1

\* utility.round_calculate_divide
round_calculate_divide(input, increment, increment_as_float) ==
    LET input_as_float == float(input)
    IN  float_truediv(input_as_float,
                      IF increment_as_float = None THEN float(increment) ELSE Val(increment_as_float))

\* utility.round_to_nearest, round_up and round_down
round_to_nearest(input, increment, increment_as_float, increment_as_decimal) ==
    (IF increment_as_decimal = None THEN increment ELSE Val(increment_as_decimal))
        * round(round_calculate_divide(input, increment, increment_as_float))

round_up(input, increment, increment_as_float, increment_as_decimal) ==
    (IF increment_as_decimal = None THEN increment ELSE Val(increment_as_decimal))
        * ceil(round_calculate_divide(input, increment, increment_as_float))

round_down(input, increment, increment_as_float, increment_as_decimal) ==
    (IF increment_as_decimal = None THEN increment ELSE Val(increment_as_decimal))
        * floor(round_calculate_divide(input, increment, increment_as_float))

\* a caller rounds an input to an increment, with the float and the Decimal
\* of the increment that it keeps or without them
round_unchanged ==
    UNCHANGED <<bbo_vars, position_vars, ohlcv_vars, trade_vars, fill_vars, order_vars, options,
                balance_vars, session_vars>>

round_to_nearest_called(input, increment, increment_as_float, increment_as_decimal) ==
    /\ call = Idle
    /\ call' = [op |-> "round_to_nearest", arg |-> input, before |-> increment,
                result |-> round_to_nearest(input, increment, increment_as_float, increment_as_decimal)]
    /\ round_unchanged

round_up_called(input, increment, increment_as_float, increment_as_decimal) ==
    /\ call = Idle
    /\ call' = [op |-> "round_up", arg |-> input, before |-> increment,
                result |-> round_up(input, increment, increment_as_float, increment_as_decimal)]
    /\ round_unchanged

round_down_called(input, increment, increment_as_float, increment_as_decimal) ==
    /\ call = Idle
    /\ call' = [op |-> "round_down", arg |-> input, before |-> increment,
                result |-> round_down(input, increment, increment_as_float, increment_as_decimal)]
    /\ round_unchanged

NextRound ==
    \/ handler_return
    \/ \E input \in (0 - MaxRoundInput)..MaxRoundInput, increment \in RoundIncrements :
          \E increment_as_float \in {None, Some(float(increment))},
             increment_as_decimal \in {None, Some(increment)} :
             \/ round_to_nearest_called(input, increment, increment_as_float, increment_as_decimal)
             \/ round_up_called(input, increment, increment_as_float, increment_as_decimal)
             \/ round_down_called(input, increment, increment_as_float, increment_as_decimal)

SpecRound == Init /\ [][NextRound]_vars

\* the logged-in set and the connections ----------------------------------

\* start_websocket_connect: websocket_on_connected registers the connection
\* and the send of handle_websocket_on_connected raises on a connection that
\* is closing; the exception leaves "async with ws_connect", which closes the
\* connection, and is logged past websocket_on_disconnected; then sleep or
\* leave
websocket_on_connected_raises(e) ==
    /\ websocket_tasks[e] = "connecting"
    /\ websocket_connections' = websocket_connections \cup {e}
    /\ connection' = [connection EXCEPT ![e] = NewConnection]
    /\ websocket_reconnect_or_break(e)
    /\ UNCHANGED <<stopped, session, websocket_connection_auto_reconnect, websocket_endpoints,
                   websocket_logged_in_connections, reset_tasks, periodic_tasks, stop_connections,
                   client_session_closed, check_order_tasks, cache_vars>>

\* a session with the account stream whose caller creates and cancels orders
\* while the stream connects, logs in, is lost and reconnects, and while a
\* connection breaks as it is established
NextLoggedIn ==
    \/ NextOrderMethod
    \/ \E e \in Endpoints : websocket_on_connected_raises(e)

SpecLoggedIn == InitOrderMethod /\ [][NextLoggedIn]_vars

\* the error hooks of the adapters on the responses to the requests of a
\* caller who creates and cancels orders
NextErrorHook ==
    \/ handler_return
    \/ \E order \in OrdersToCreate : create_order(order, None)
    \/ \E symbol \in OrderSymbols, ids \in RequestIds :
          cancel_order(symbol, ids.order_id, ids.client_order_id, None)
    \/ \E order \in CreateOrderResponses : update_rest_response_for_create_order(order)
    \/ \E rest_response \in OkxErrorResponses, now \in 1..MaxT :
          okx_handle_rest_response_for_error(rest_response, now)
    \/ \E rest_response \in BybitErrorResponses, now \in 1..MaxT :
          bybit_handle_rest_response_for_error(rest_response, now)

SpecErrorHook == Init /\ [][NextErrorHook]_vars

\* a session without streams whose caller creates and cancels orders; the
\* venue answers the fetch_order requests or the requests fail, and time
\* goes by
InitCheckOrder ==
    /\ stopped = FALSE
    /\ session = "constructed"
    /\ websocket_connection_auto_reconnect = TRUE
    /\ websocket_endpoints = {}
    /\ InitSessionState
    /\ InitCacheState
    /\ options = DefaultOptions

NextCheckOrder ==
    \/ start_websocket_connects
    \/ start_returns
    \/ stop
    \/ stop_returns
    \/ handler_return
    \/ \E order \in OrdersToCreate : create_order(order, None)
    \/ \E symbol \in OrderSymbols, ids \in RequestIds :
          cancel_order(symbol, ids.order_id, ids.client_order_id, None)
    \/ \E order \in VenueOrders : update_rest_response_for_fetch_order(order)
    \/ \E symbol \in OrderSymbols, index \in 1..MaxOrders : threshold_passes(symbol, index)
    \/ \E name \in CheckOrderTasks : start_periodic_rest_account_check_order(name)
    \/ \E name \in CheckOrderTasks : rest_account_check_order_resume(name)
    \/ \E name \in CheckOrderTasks : rest_account_fetch_order_raises(name)

\* The event loop runs every task that is ready and a sleep ends; a request
\* returns or raises.  Whether a request fails, what the venue answers and
\* what the caller does is left open.
FairnessCheckOrder ==
    /\ WF_vars(start_returns)
    /\ WF_vars(stop_returns)
    /\ \A name \in CheckOrderTasks :
          /\ WF_vars(start_periodic_rest_account_check_order(name))
          /\ WF_vars(rest_account_check_order_resume(name) \/ rest_account_fetch_order_raises(name))

SpecCheckOrder == InitCheckOrder /\ [][NextCheckOrder]_vars
SpecCheckOrderFair == SpecCheckOrder /\ FairnessCheckOrder

-----------------------------------------------------------------------------
(* Properties of the order cache.                                          *)

UpdateOrderHandlers ==
    {"update_rest_response_for_create_order", "update_rest_response_for_cancel_order",
     "update_rest_response_for_fetch_order", "update_rest_response_for_fetch_open_order",
     "update_rest_response_for_historical_order", "update_websocket_push_data_for_order"}

CancelOrdersOperations == {"cancel_orders", "cancel_orders_resume"}

OrderOperations ==
    UpdateOrderHandlers \cup CancelOrdersOperations
        \cup {"create_order", "cancel_order", "handle_rest_response_for_error"}

\* the positions of the orders that were in the cache when the running
\* operation started; the operations of the model keep an order at its position
OrdersBefore ==
    IF call.op \in OrderOperations
    THEN UNION {{<<s, i>> : i \in 1..Len(call.before[s])} : s \in DOMAIN call.before}
    ELSE {}

\* a handler has just fed one incoming record to update_order, which found
\* the order at position at
UpdatedAt(at) ==
    /\ call.op \in UpdateOrderHandlers
    /\ Len(call.arg) = 1
    /\ at[1] = call.arg[1].symbol
    /\ at[2] = get_order(call.before, call.arg[1].symbol, call.arg[1].order_id, call.arg[1].client_order_id)

\* the incoming record is strictly later than the stored order
IncomingIsLater(stored, incoming) ==
    /\ incoming.exchange_update_time_point # None
    /\ stored.exchange_update_time_point # None
          => Val(incoming.exchange_update_time_point) > Val(stored.exchange_update_time_point)

\* the incoming record carries a strictly larger cumulative filled quantity
IncomingFillIsLarger(stored, incoming) ==
    /\ incoming.cumulative_filled_quantity # None
    /\ stored.cumulative_filled_quantity # None
          => DecimalOf(Val(incoming.cumulative_filled_quantity)) > DecimalOf(Val(stored.cumulative_filled_quantity))

\* C1 as stated: no operation lowers the status of a cached order.
C1_StatusNeverDecreases ==
    \A at \in OrdersBefore :
        Val(orders[at[1]][at[2]].status) >= Val(call.before[at[1]][at[2]].status)

\* cancel_orders has just called cancel_order with the ids of an order it
\* visited, and cancel_order found the order at position at
CancelOrdersStampedAt(at) ==
    /\ call.op \in CancelOrdersOperations
    /\ call.dispatch # None
    /\ LET order == call.before[Val(call.dispatch)[1]][Val(call.dispatch)[2]]
       IN  /\ at[1] = order.symbol
           /\ at[2] = get_order(call.before, order.symbol, order.order_id, order.client_order_id)

\* C1 amended: the status of a cached order is lowered only by cancel_order,
\* called directly or by cancel_orders,
\* which stamps CANCEL_IN_FLIGHT on the order it finds, and by update_order
\* merging a record that is strictly later than the stored order or carries a
\* strictly larger cumulative filled quantity, which stores the record's
\* status; create_order, the error hook and every other update leave it or
\* raise it.
C1_StatusLoweredOnlyByCancelOrLaterRecord ==
    \A at \in OrdersBefore :
        LET stored == call.before[at[1]][at[2]]
            now == orders[at[1]][at[2]]
        IN  Val(now.status) < Val(stored.status) =>
                \/ /\ call.op = "cancel_order"
                   /\ at[1] = call.arg.symbol
                   /\ at[2] = get_order(call.before, call.arg.symbol, call.arg.order_id, call.arg.client_order_id)
                   /\ now.status = Some(CANCEL_IN_FLIGHT)
                \/ /\ CancelOrdersStampedAt(at)
                   /\ now.status = Some(CANCEL_IN_FLIGHT)
                \/ /\ UpdatedAt(at)
                   /\ now.status = call.arg[1].status
                   /\ IncomingIsLater(stored, call.arg[1]) \/ IncomingFillIsLarger(stored, call.arg[1])

\* a later push without a larger fill has lowered PARTIALLY_FILLED to NEW
C1_Witness ==
    \E at \in OrdersBefore :
        /\ UpdatedAt(at)
        /\ call.op = "update_websocket_push_data_for_order"
        /\ call.before[at[1]][at[2]].status = Some(PARTIALLY_FILLED)
        /\ orders[at[1]][at[2]].status = Some(NEW_)
        /\ ~IncomingFillIsLarger(call.before[at[1]][at[2]], call.arg[1])

\* C2: the cumulative filled quantity of a cached order, as a decimal, never
\* decreases; an incoming record whose quantity is not strictly larger leaves
\* the stored value as it is, also when the record is merged, and a strictly
\* larger one replaces it.
C2_FilledQuantityNeverDecreases ==
    \A at \in OrdersBefore :
        LET stored == call.before[at[1]][at[2]]
            now == orders[at[1]][at[2]]
        IN  /\ stored.cumulative_filled_quantity # None =>
                  /\ now.cumulative_filled_quantity # None
                  /\ DecimalOf(Val(now.cumulative_filled_quantity))
                        >= DecimalOf(Val(stored.cumulative_filled_quantity))
            /\ UpdatedAt(at) =>
                  now.cumulative_filled_quantity =
                      IF IncomingFillIsLarger(stored, call.arg[1])
                      THEN call.arg[1].cumulative_filled_quantity
                      ELSE stored.cumulative_filled_quantity

\* a later push with the smaller quantity 0.4 has been merged into an order
\* filled to 0.5: the push's timestamp is stored, the quantity is still 0.5
C2_Witness ==
    \E at \in OrdersBefore :
        /\ UpdatedAt(at)
        /\ call.op = "update_websocket_push_data_for_order"
        /\ call.before[at[1]][at[2]].cumulative_filled_quantity = Some("0.5")
        /\ call.arg[1].cumulative_filled_quantity = Some("0.4")
        /\ orders[at[1]][at[2]].exchange_update_time_point = call.arg[1].exchange_update_time_point
        /\ orders[at[1]][at[2]].exchange_update_time_point # call.before[at[1]][at[2]].exchange_update_time_point
        /\ orders[at[1]][at[2]].cumulative_filled_quantity = Some("0.5")

\* the create response (CREATE_ACKNOWLEDGED, no fill quantity) has arrived
\* for an order that is PARTIALLY_FILLED with a later exchange timestamp
LateCreateResponseAt(at) ==
    /\ UpdatedAt(at)
    /\ call.op = "update_rest_response_for_create_order"
    /\ call.arg[1].status = Some(CREATE_ACKNOWLEDGED)
    /\ call.arg[1].cumulative_filled_quantity = None
    /\ call.before[at[1]][at[2]].status = Some(PARTIALLY_FILLED)
    /\ call.before[at[1]][at[2]].exchange_update_time_point # None
    /\ Val(call.arg[1].exchange_update_time_point) < Val(call.before[at[1]][at[2]].exchange_update_time_point)

\* C3: a create response with timestamp T1 applied after a PARTIALLY_FILLED
\* push with timestamp T2 > T1 leaves the order PARTIALLY_FILLED, with the
\* push's timestamp.
C3_LateCreateResponseKeepsPartiallyFilled ==
    \A at \in OrdersBefore :
        LateCreateResponseAt(at) =>
            /\ orders[at[1]][at[2]].status = Some(PARTIALLY_FILLED)
            /\ orders[at[1]][at[2]] = call.before[at[1]][at[2]]

\* the late create response has arrived for an order that create_order put
\* into the cache under a generated client order id
C3_Witness ==
    /\ last_client_order_id_sequence_number # None
    /\ \E at \in OrdersBefore :
          /\ LateCreateResponseAt(at)
          /\ orders[at[1]][at[2]].client_order_id = Some("1000")

\* C4: create_order appends the order with status CREATE_IN_FLIGHT, with the
\* caller's client order id or a generated one, and with
\* local_update_time_point set; cancel_order stamps CANCEL_IN_FLIGHT on the
\* order it finds; both leave every other cached order as it was, and both do
\* so in the step that ends at the call's first await.
C4_InFlightBeforeFirstAwait ==
    /\ call.op = "create_order" =>
          LET s == call.arg.symbol
              n == Len(DictGet(call.before, s))
          IN  /\ Len(orders[s]) = n + 1
              /\ orders[s][n + 1].status = Some(CREATE_IN_FLIGHT)
              /\ orders[s][n + 1].client_order_id # None
              /\ Len(Val(orders[s][n + 1].client_order_id)) > 0
              /\ call.arg.client_order_id # None
                    => orders[s][n + 1].client_order_id = call.arg.client_order_id
              /\ orders[s][n + 1].local_update_time_point # None
              /\ \A at \in OrdersBefore : orders[at[1]][at[2]] = call.before[at[1]][at[2]]
    /\ call.op = "cancel_order" =>
          LET found == get_order(call.before, call.arg.symbol, call.arg.order_id, call.arg.client_order_id)
          IN  \A at \in OrdersBefore :
                  IF at = <<call.arg.symbol, found>>
                  THEN /\ orders[at[1]][at[2]].status = Some(CANCEL_IN_FLIGHT)
                       /\ orders[at[1]][at[2]].client_order_id = call.before[at[1]][at[2]].client_order_id
                       /\ orders[at[1]][at[2]].order_id = call.before[at[1]][at[2]].order_id
                  ELSE orders[at[1]][at[2]] = call.before[at[1]][at[2]]

\* create_order has stored an order of a caller who gave no client order id,
\* under the first generated id
C4_Witness ==
    /\ call.op = "create_order"
    /\ call.arg.client_order_id = None
    /\ orders[call.arg.symbol][1].client_order_id = Some("1000")
    /\ orders[call.arg.symbol][1].status = Some(CREATE_IN_FLIGHT)

-----------------------------------------------------------------------------
(* Properties of the trade and fill caches.                                *)

\* ---- cancel_orders -------------------------------------------------------

\* the places cancel_orders had still to visit when the running step began:
\* <<k, i>> is position i of the list of the k-th symbol still to go
CancelOrdersPlaces ==
    IF call.op \in CancelOrdersOperations
    THEN {place \in (1..Len(call.arg.keys)) \X (1..4) :
             /\ place[2] <= Len(call.before[call.arg.keys[place[1]]])
             /\ place[1] = 1 => place[2] >= call.arg.index}
    ELSE {}

PlaceBefore(p, q) == p[1] < q[1] \/ (p[1] = q[1] /\ p[2] < q[2])

OrderAtPlace(place) == call.before[call.arg.keys[place[1]]][place[2]]

\* the dict gained a symbol since the iteration over it began: the iterator
\* raises when it is asked for the symbol after the current one
CancelOrdersDictChanged ==
    call.arg.symbol = None /\ Cardinality(DOMAIN call.before) # Val(call.arg.size)

\* the places the step visits if it cancels nothing
CancelOrdersReach == {place \in CancelOrdersPlaces : CancelOrdersDictChanged => place[1] = 1}

\* the order at the place is cancel-eligible and passes the filters of the call
CancelOrdersQualifies(place) ==
    LET order == OrderAtPlace(place)
    IN  /\ Val(order.status) \in {CREATE_ACKNOWLEDGED, UNTRIGGERED, NEW_, PARTIALLY_FILLED}
        /\ \/ call.arg.order_ids = None
           \/ call.arg.order_ids = Some({})
           \/ order.order_id \in Val(call.arg.order_ids)
        /\ \/ call.arg.client_order_ids = None
           \/ call.arg.client_order_ids = Some({})
           \/ order.client_order_id \in Val(call.arg.client_order_ids)
        /\ \/ call.arg.margin_asset = None
           \/ order.margin_asset = call.arg.margin_asset

StoredTradeLists == {trades[s] : s \in DOMAIN trades} \cup {fills[s] : s \in DOMAIN fills}

HistoricalTradeHandlers ==
    {"update_rest_response_for_historical_trade", "update_rest_response_for_historical_fill"}

\* a historical page has just been merged into a non-empty sequence
HistoricalPageOntoStored ==
    /\ call.op \in HistoricalTradeHandlers
    /\ call.arg # <<>>
    /\ DictGet(call.before, call.arg[1].symbol) # <<>>

\* the sequence the running handler has merged into
MergedTradeList ==
    IF call.op = "update_rest_response_for_historical_trade"
    THEN trades[call.arg[1].symbol] ELSE fills[call.arg[1].symbol]

\* the fetch window of the running handler, as (start, end)
MergedFetchWindow ==
    IF call.op = "update_rest_response_for_historical_trade"
    THEN <<fetch_historical_trade_start_unix_timestamp_seconds, fetch_historical_trade_end_unix_timestamp_seconds>>
    ELSE <<fetch_historical_fill_start_unix_timestamp_seconds, fetch_historical_fill_end_unix_timestamp_seconds>>

InsideWindow(x, window) ==
    /\ window[1] # None => x.exchange_update_time_point[1] >= Val(window[1])
    /\ window[2] # None => x.exchange_update_time_point[1] < Val(window[2])

\* C7: merging a historical page into a non-empty trade (fill) sequence adds
\* exactly the page items inside the fetch window whose key is strictly
\* smaller than the head's, before the head and in ascending order; the
\* entries already stored are unchanged.
C7_PageAddsEarlierInWindow ==
    HistoricalPageOntoStored =>
        LET old == call.before[call.arg[1].symbol]
            new == MergedTradeList
            n == Len(new) - Len(old)
            expected == {x \in {call.arg[i] : i \in 1..Len(call.arg)} :
                            /\ InsideWindow(x, MergedFetchWindow)
                            /\ tuple_less(trade_key(x), trade_key(old[1]))}
        IN  /\ n >= 0
            /\ \A i \in 1..Len(old) : new[n + i] = old[i]
            /\ {new[i] : i \in 1..n} = expected
            /\ n = Cardinality(expected)
            /\ \A i, j \in 1..n : i < j => ~tuple_less(trade_key(new[j]), trade_key(new[i]))

\* a page listing, inside the fetch window, one trade earlier than the head
\* and one not earlier has been merged: the first is added, the second dropped
C7_Witness ==
    /\ HistoricalPageOntoStored
    /\ call.op = "update_rest_response_for_historical_trade"
    /\ Len(call.arg) = 2
    /\ \A i \in 1..2 : InsideWindow(call.arg[i], MergedFetchWindow)
    /\ \E i, j \in 1..2 :
          /\ tuple_less(trade_key(call.arg[i]), trade_key(call.before[call.arg[1].symbol][1]))
          /\ ~tuple_less(trade_key(call.arg[j]), trade_key(call.before[call.arg[1].symbol][1]))
    /\ Len(trades[call.arg[1].symbol]) = Len(call.before[call.arg[1].symbol]) + 1

-----------------------------------------------------------------------------
(* Properties of the OHLCV cache.                                          *)

OhlcvStartsStrictlyIncreasing ==
    \A s \in DOMAIN ohlcvs : \A i, j \in 1..Len(ohlcvs[s]) :
        i < j => ohlcvs[s][i].start_unix_timestamp_seconds < ohlcvs[s][j].start_unix_timestamp_seconds

\* the candle of a non-empty push with the earliest bucket start
EarliestOhlcv(batch) ==
    CHOOSE x \in {batch[i] : i \in 1..Len(batch)} :
        \A i \in 1..Len(batch) : x.start_unix_timestamp_seconds <= batch[i].start_unix_timestamp_seconds

\* a stream push has just been merged into a non-empty candle list
OhlcvPushOntoStored ==
    /\ call.op = "update_websocket_push_data_for_ohlcv"
    /\ call.arg # <<>>
    /\ DictGet(call.before, call.arg[1].symbol) # <<>>

\* C8 as stated: every stored candle equals the last stream update seen for
\* its bucket, and the bucket starts of a symbol are strictly increasing.
C8_StoredIsLastSeen ==
    /\ \A s \in DOMAIN ohlcvs : \A i \in 1..Len(ohlcvs[s]) :
          LET k == <<s, ohlcvs[s][i].start_unix_timestamp_seconds>>
          IN  k \in DOMAIN seen_ohlcvs => ohlcvs[s][i] = seen_ohlcvs[k]
    /\ OhlcvStartsStrictlyIncreasing

\* C8 amended: a stream push onto a non-empty candle list replaces the tail
\* exactly when the push's earliest candle has the tail's bucket start,
\* appends in ascending order exactly the candles of later buckets, and
\* leaves every other stored candle as it was (updates for other buckets
\* are dropped); the bucket starts of a symbol are strictly increasing.
C8_TailReplacedLaterAppended ==
    /\ OhlcvStartsStrictlyIncreasing
    /\ OhlcvPushOntoStored =>
          LET s == call.arg[1].symbol
              old == call.before[s]
              new == ohlcvs[s]
              tail == old[Len(old)]
              earliest == EarliestOhlcv(call.arg)
          IN  /\ Len(new) >= Len(old)
              /\ \A i \in 1..(Len(old) - 1) : new[i] = old[i]
              /\ new[Len(old)] = IF earliest.start_unix_timestamp_seconds = tail.start_unix_timestamp_seconds
                                 THEN earliest ELSE tail
              /\ {new[i] : i \in (Len(old) + 1)..Len(new)}
                    = {x \in {call.arg[i] : i \in 1..Len(call.arg)} :
                          x.start_unix_timestamp_seconds > tail.start_unix_timestamp_seconds}
              /\ \A t \in DOMAIN ohlcvs : t # s => ohlcvs[t] = DictGet(call.before, t)

\* a push whose earliest candle has the tail's bucket start has replaced the
\* tail by a different candle and appended a later bucket
C8_Witness ==
    /\ OhlcvPushOntoStored
    /\ LET s == call.arg[1].symbol
           old == call.before[s]
       IN  /\ Len(ohlcvs[s]) > Len(old)
           /\ ohlcvs[s][Len(old)] # old[Len(old)]
           /\ ohlcvs[s][Len(old)] = EarliestOhlcv(call.arg)

-----------------------------------------------------------------------------
(* Properties of the BBO cache.                                            *)

BboHandlers == {"update_rest_response_for_bbo", "update_websocket_push_data_for_bbo"}

\* a handler has just run update_bbo on one incoming BBO
BboOneUpdate == call.op \in BboHandlers /\ Len(call.arg) = 1

\* C9 as stated: the incoming BBO is applied when the symbol has no cached
\* BBO, when the incoming timestamp is nil, or when it is strictly greater
\* than the cached one; otherwise the cache is unchanged.
C9_AppliedInThreeCases ==
    BboOneUpdate =>
        LET bbo == call.arg[1]
            d == call.before
        IN  IF \/ bbo.symbol \notin DOMAIN d
               \/ bbo.exchange_update_time_point = None
               \/ /\ d[bbo.symbol].exchange_update_time_point # None
                  /\ Val(bbo.exchange_update_time_point) > Val(d[bbo.symbol].exchange_update_time_point)
            THEN bbos = DictSet(d, bbo.symbol, bbo)
            ELSE bbos = d

\* C9 amended: the incoming BBO is applied when the symbol has no cached
\* BBO, when the cached timestamp is nil, when the incoming timestamp is
\* nil, or when it is strictly greater than the cached one; otherwise the
\* cache is unchanged.  REST pulls and stream pushes are treated alike.
C9_AppliedInFourCases ==
    BboOneUpdate =>
        LET bbo == call.arg[1]
            d == call.before
        IN  IF \/ bbo.symbol \notin DOMAIN d
               \/ d[bbo.symbol].exchange_update_time_point = None
               \/ bbo.exchange_update_time_point = None
               \/ Val(bbo.exchange_update_time_point) > Val(d[bbo.symbol].exchange_update_time_point)
            THEN bbos = DictSet(d, bbo.symbol, bbo)
            ELSE bbos = d

\* a stream push with a timestamp has replaced a different cached BBO that
\* had none
C9_Witness ==
    /\ call.op = "update_websocket_push_data_for_bbo"
    /\ Len(call.arg) = 1
    /\ call.arg[1].symbol \in DOMAIN call.before
    /\ call.before[call.arg[1].symbol].exchange_update_time_point = None
    /\ call.arg[1].exchange_update_time_point # None
    /\ call.before[call.arg[1].symbol].best_bid_price # call.arg[1].best_bid_price
    /\ bbos[call.arg[1].symbol] = call.arg[1]

-----------------------------------------------------------------------------
(* Properties of the position cache.                                       *)

\* C10 as stated: for every symbol, the map holds an update with the greatest
\* timestamp delivered so far, and holds no entry only if an update with that
\* timestamp carried zero quantity.
C10_GreatestTimestampWins ==
    \A s \in DOMAIN seen_positions :
        IF s \in DOMAIN positions
        THEN positions[s] \in seen_positions[s].updates
        ELSE \E u \in seen_positions[s].updates : position_is_zero(u)

\* ---- zero quantities ------------------------------------------------------

\* C11: no entry of the positions map and no entry of the balances map has
\* zero quantity, whatever pushes and REST snapshots were applied.
C11_NoZeroQuantityEntry ==
    /\ \A s \in DOMAIN positions : DecimalOf(positions[s].quantity) # 0
    /\ \A s \in DOMAIN balances : DecimalOf(balances[s].quantity) # 0

\* a push with zero quantity and a later timestamp has removed a balance
\* while a position is held
C11_Witness ==
    /\ call.op = "update_websocket_push_data_for_balance"
    /\ \E i \in 1..Len(call.arg) :
          /\ DecimalOf(call.arg[i].quantity) = 0
          /\ call.arg[i].symbol \in DOMAIN call.before
          /\ call.arg[i].symbol \notin DOMAIN balances
    /\ positions # EmptyDict

\* ---- session ---------------------------------------------------------------

\* a stream connection attempt is issued for the endpoint in this step
ConnectionAttemptIssued(e) ==
    websocket_tasks[e] # "connecting" /\ websocket_tasks'[e] = "connecting"

\* C12: once stop() has set the terminal flag, no stream connection attempt
\* is issued for any endpoint.
C12_NoConnectionAttemptAfterStop ==
    [][stopped => \A e \in Endpoints : ~ConnectionAttemptIssued(e)]_vars

\* no task runs and nothing is open
SessionQuiet ==
    /\ \A e \in Endpoints :
          /\ websocket_tasks[e] \in {"none", "done", "cancelled"}
          /\ connection[e].closed
          /\ reset_tasks[e] = 0
    /\ \A name \in PeriodicTasks : periodic_tasks[name] \in {"none", "cancelled"}
    /\ client_session_closed

\* C13: start() returns, stop() returns once it is called, and from the
\* return of stop() on every background task has finished, every stream
\* connection and the HTTP session are closed, and no task runs or is
\* scheduled any more.
C13_StartStopTerminatesQuiet ==
    /\ (session = "starting") ~> (session = "started")
    /\ stopped ~> (session = "stopped")
    /\ [](session = "stopped" => SessionQuiet)
    /\ [][session = "stopped" =>
             UNCHANGED <<websocket_tasks, connection, reset_tasks, periodic_tasks, client_session_closed>>]_vars

\* stop() has returned on a session whose two streams were connected and
\* whose monitors were running
C13_Witness ==
    /\ session = "stopped"
    /\ \A e \in Endpoints : websocket_tasks[e] \in {"done", "cancelled"} /\ connection[e].sent # <<>>
    /\ periodic_tasks["heartbeat_timeout"] = "cancelled"

\* the delay the endpoint's task has just computed, in a step that put it to sleep
ReconnectDelayComputed(e) ==
    websocket_tasks[e] # "delay" /\ websocket_tasks'[e] = "delay"

\* C14 as stated: the first delay is 1 second, each later one is double the
\* previous one, capped at 60 seconds.
C14_DelaysFromOneSecond ==
    [][\A e \in Endpoints :
          ReconnectDelayComputed(e) =>
              websocket_reconnect_delay_seconds'[e] =
                  IF e \in DOMAIN websocket_reconnect_delay_seconds
                  THEN min(2 * websocket_reconnect_delay_seconds[e], 60)
                  ELSE 1]_vars

\* the connection of the endpoint is open and a whole timeout window has gone
\* by without a frame on it
SilentConnection(e) ==
    websocket_tasks[e] = "open" /\ ~connection[e].closed /\ connection[e].silent

\* C15: an open connection on which no frame was received during a whole
\* timeout window is eventually closed by the idle-timeout monitor with cause
\* "application level heartbeat timeout", unless a frame arrives after all,
\* the connection is closed otherwise first, or the session is stopped.
C15_SilentConnectionClosedByMonitor ==
    \A e \in Endpoints :
        SilentConnection(e) ~>
            \/ connection[e].close_message = Some("application level heartbeat timeout")
            \/ ~SilentConnection(e)
            \/ stopped

\* the connection of e is over or the attempt to connect has failed: the task
\* of e stands after the frames of a closed connection or in the sleep before
\* the next attempt
ConnectionOver(e) ==
    \/ websocket_tasks[e] = "open" /\ connection[e].closed
    \/ websocket_tasks[e] = "delay"

\* the requests an established connection of e has sent: subscribe on the
\* market data endpoint; login on the account endpoint, followed by subscribe
\* once the login is answered
Resubscribed(e) ==
    websocket_tasks[e] = "open" =>
        IF e = "market_data"
        THEN connection[e].sent = <<"subscribe">>
        ELSE /\ connection[e].sent \in {<<"login">>, <<"login", "subscribe">>}
             /\ e \in websocket_logged_in_connections => connection[e].sent = <<"login", "subscribe">>

\* C16: when an established connection closes or a connection attempt fails
\* while auto-reconnect is enabled and the session is not stopped, a new
\* attempt to the same endpoint is eventually made (unless the session is
\* stopped meanwhile), and every established connection has sent the
\* endpoint's subscribe (market data) or login followed, once it is answered,
\* by subscribe (account).
C16_ReconnectAndResubscribe ==
    /\ \A e \in Endpoints :
          (ConnectionOver(e) /\ websocket_connection_auto_reconnect /\ ~stopped)
              ~> (websocket_tasks[e] = "connecting" \/ stopped)
    /\ [](\A e \in Endpoints : Resubscribed(e))

\* the account connection is established again after a reconnect, logged in
\* and subscribed
C16_Witness ==
    /\ websocket_tasks["account"] = "open"
    /\ "account" \in DOMAIN websocket_reconnect_delay_seconds
    /\ "account" \in websocket_logged_in_connections
    /\ connection["account"].sent = <<"login", "subscribe">>
    /\ ~stopped

\* the preference in effect in a call: the argument of the call, or the
\* session's when the call passes none
EffectivePreference(trade_api_method_preference) ==
    IF trade_api_method_preference # None
    THEN trade_api_method_preference
    ELSE options.trade_api_method_preference

\* C17: create_order and cancel_order send their request over the stream
\* only if the preference in effect (the argument of the call, else the
\* session's) is WEBSOCKET and the trade endpoint is in the logged-in set at
\* the time of the call; in every other case they send it over REST.
C17_StreamOnlyIfPreferredAndLoggedIn ==
    [][(call = Idle /\ call'.op \in {"create_order", "cancel_order"}) =>
          IF /\ EffectivePreference(call'.trade_api_method_preference) = Some(WEBSOCKET)
             /\ websocket_account_trade_url_with_query_params \in websocket_logged_in_connections
          THEN call'.api_method = WEBSOCKET
          ELSE call'.api_method = REST]_vars

\* an order is created over the stream on the session's preference, the
\* account connection being logged in
C17_Witness ==
    /\ call.op = "create_order"
    /\ call.trade_api_method_preference = None
    /\ call.api_method = WEBSOCKET
    /\ "account" \in websocket_logged_in_connections

\* the places of the cache, and the order at a place that is stalled: in
\* flight or open, with a local_update_time_point older than the threshold
OrderPlaces == OrderSymbols \X (1..MaxOrders)

StalledOrder(place) ==
    /\ place[1] \in DOMAIN orders
    /\ place[2] <= Len(orders[place[1]])
    /\ orders[place[1]][place[2]].local_update_time_point = Some(long_ago)
    /\ is_in_flight(orders[place[1]][place[2]]) \/ is_open(orders[place[1]][place[2]])

\* a periodic check has sent the fetch_order of the order at place
FetchOrderIssued(place) ==
    \E name \in CheckOrderTasks :
        /\ periodic_tasks[name] = "fetching"
        /\ Val(check_order_tasks[name]).dispatch = place

\* C18: whenever an order stays in flight longer than the in-flight
\* threshold or open without update longer than the open threshold, a
\* fetch_order for it is eventually sent, as long as the session is started
\* and not stopped.
C18_StalledOrderEventuallyFetched ==
    \A place \in OrderPlaces :
        (session = "started" /\ ~stopped /\ StalledOrder(place))
            ~> (FetchOrderIssued(place) \/ ~StalledOrder(place) \/ stopped)

\* the order a request names, in the keys of the venue
RequestOrder(rest_request, symbol_key, order_id_key, client_order_id_key) ==
    LET params == IF rest_request.json_payload # None
                  THEN Val(rest_request.json_payload) ELSE Val(rest_request.query_params)
    IN  [symbol |-> params[symbol_key],
         order_id |-> dict_get(params, order_id_key),
         client_order_id |-> dict_get(params, client_order_id_key)]

\* what the claim asks of the error hook on rest_response, whose request
\* names the order named and which unknown_order tells to be the venue's
\* answer for an order it does not know
ErrorHookAsClaimed(rest_response, named, unknown_order) ==
    /\ rest_response.rest_request.json_payload # None => call'.fetch_order = Some(named)
    /\ (rest_response.rest_request.query_params # None /\ unknown_order) =>
          LET index == get_order(orders, named.symbol, named.order_id, named.client_order_id)
          IN  index # 0 => orders'[named.symbol][index].status = Some(REJECTED)

\* C19: when a create or cancel request is classified as a failure, the
\* error hook triggers a fetch_order for the same order, and when a
\* fetch_order is answered with the venue's unknown-order code (OKX 51001 or
\* 51603, Bybit 110001) the cached order named by the request's order id or
\* client order id is marked REJECTED.
C19_ErrorHookFetchesAndRejects ==
    [][/\ (call = Idle /\ call'.op = "okx_handle_rest_response_for_error") =>
            ErrorHookAsClaimed(call'.arg, RequestOrder(call'.arg.rest_request, "instId", "ordId", "clOrdId"),
                               /\ call'.arg.status_code = 200
                               /\ call'.arg.json_deserialized_payload["code"] \in {"51001", "51603"})
       /\ (call = Idle /\ call'.op = "bybit_handle_rest_response_for_error") =>
            ErrorHookAsClaimed(call'.arg, RequestOrder(call'.arg.rest_request, "symbol", "orderId", "orderLinkId"),
                               /\ call'.arg.status_code = 200
                               /\ call'.arg.json_deserialized_payload["retCode"] = 110001)]_vars

\* the closed orders among the orders of a symbol, and the latest of their
\* local_update_time_points
ClosedOrders(orders_for_symbol) ==
    {orders_for_symbol[i] : i \in {j \in 1..Len(orders_for_symbol) : is_closed(orders_for_symbol[j])}}

LatestClosed(orders_for_symbol) ==
    CHOOSE t \in {Val(order.local_update_time_point) : order \in ClosedOrders(orders_for_symbol)} :
        \A order \in ClosedOrders(orders_for_symbol) : ~tuple_less(t, Val(order.local_update_time_point))

\* order is older than the retention window measured back from the time
\* point latest, on the clock's scale of seconds and nanoseconds
OlderThanWindow(order, latest) ==
    tuple_less(Val(order.local_update_time_point), <<latest[1] - keep_historical_order_seconds, latest[2]>>)

\* the seconds of order are earlier than the seconds of latest less the
\* retention window
OlderThanWindowInSeconds(order, latest) ==
    Val(order.local_update_time_point)[1] < latest[1] - keep_historical_order_seconds

\* C20 as stated: the sweep never removes an order that is not closed,
\* removes a closed order exactly when its local_update_time_point is older
\* than the retention window measured back from the latest
\* local_update_time_point among the closed orders of the symbol, and keeps
\* the other orders in their relative order.
C20_RemovesExactlyOlderThanWindow ==
    call.op = "remove_orders" =>
        \A symbol \in DOMAIN call.before :
            LET before == call.before[symbol]
                stays(order) == ~is_closed(order) \/ ~OlderThanWindow(order, LatestClosed(before))
            IN  orders[symbol] = SelectSeq(before, stays)

\* C20 (amended): the same with the window counted in whole seconds: a
\* closed order is removed exactly when the seconds of its
\* local_update_time_point are earlier than the seconds of the latest
\* local_update_time_point among the closed orders of the symbol less
\* keep_historical_order_seconds.
C20_RemovesExactlyOlderInWholeSeconds ==
    call.op = "remove_orders" =>
        \A symbol \in DOMAIN call.before :
            LET before == call.before[symbol]
                stays(order) == ~is_closed(order) \/ ~OlderThanWindowInSeconds(order, LatestClosed(before))
            IN  orders[symbol] = SelectSeq(before, stays)

\* a sweep removed the closed order between two others: the first one, in
\* flight and as old, and the last one, the latest closed order, stay
C20_Witness ==
    /\ call.op = "remove_orders"
    /\ Len(call.before["BTC"]) = 3
    /\ orders["BTC"] = <<call.before["BTC"][1], call.before["BTC"][3]>>
    /\ is_in_flight(call.before["BTC"][1])
    /\ call.before["BTC"][1].local_update_time_point = call.before["BTC"][2].local_update_time_point
    /\ is_closed(call.before["BTC"][3])

\* the retention sweeps of trades, fills and candles, the cache each of them
\* sweeps and the window it was configured with
RetentionSweeps == {"remove_trades", "remove_fills", "remove_ohlcvs"}

SweptCache ==
    CASE call.op = "remove_trades" -> trades
      [] call.op = "remove_fills" -> fills
      [] call.op = "remove_ohlcvs" -> ohlcvs

RetentionWindow ==
    CASE call.op = "remove_trades" -> keep_historical_trade_seconds
      [] call.op = "remove_fills" -> keep_historical_fill_seconds
      [] call.op = "remove_ohlcvs" -> keep_historical_ohlcv_seconds

\* the timestamp of a trade, a fill or a candle as a time point
ItemTimestamp(x) ==
    IF "start_unix_timestamp_seconds" \in DOMAIN x THEN <<x.start_unix_timestamp_seconds, 0>>
    ELSE x.exchange_update_time_point

LatestTimestamp(items) ==
    CHOOSE t \in {ItemTimestamp(items[i]) : i \in DOMAIN items} :
        \A i \in DOMAIN items : ~tuple_less(t, ItemTimestamp(items[i]))

\* x is older than the time point latest less the window, on the scale of
\* seconds and fractions of a second
ItemOlderThanWindow(x, latest, window) ==
    tuple_less(ItemTimestamp(x), <<latest[1] - window, latest[2]>>)

\* the seconds of x are earlier than the seconds of latest less the window
ItemOlderThanWindowInSeconds(x, latest, window) ==
    ItemTimestamp(x)[1] < latest[1] - window

\* what a sweep leaves of the list before, given what counts as older than
\* the window: the items left are not older, no item that is not older was
\* removed, the latest item is left, and the items left are in the order
\* they were in
SweepAsClaimed(before, after, Older(_, _, _)) ==
    IF before = <<>> THEN after = <<>>
    ELSE LET latest == LatestTimestamp(before)
             left(x) == \E j \in DOMAIN after : after[j] = x
         IN  /\ \A j \in DOMAIN after : ~Older(after[j], latest, RetentionWindow)
             /\ \A i \in DOMAIN before : ~Older(before[i], latest, RetentionWindow) => left(before[i])
             /\ \E j \in DOMAIN after : ItemTimestamp(after[j]) = latest
             /\ after = SelectSeq(before, left)

\* C21 as stated: after a retention sweep of trades, fills or candles, every
\* remaining item of each symbol has a timestamp not older than the latest
\* item's timestamp minus the window, no item inside the window has been
\* removed, the latest item is still present and the order of the remaining
\* items is unchanged.
C21_KeepsExactlyTheWindow ==
    call.op \in RetentionSweeps =>
        \A symbol \in DOMAIN call.before :
            SweepAsClaimed(call.before[symbol], SweptCache[symbol], ItemOlderThanWindow)

\* C21 (amended): the same with the window counted in whole seconds: every
\* remaining item has the seconds of its timestamp not earlier than the
\* seconds of the latest item's timestamp minus the window, and no item whose
\* seconds are inside that window has been removed.
C21_KeepsExactlyTheWindowInWholeSeconds ==
    call.op \in RetentionSweeps =>
        \A symbol \in DOMAIN call.before :
            SweepAsClaimed(call.before[symbol], SweptCache[symbol], ItemOlderThanWindowInSeconds)

\* a sweep of three trades removed the first one and left the second one,
\* which is as many whole seconds before the latest as the window is long
C21_Witness ==
    /\ call.op = "remove_trades"
    /\ DOMAIN call.before = {"BTC", "ETH"}
    /\ Len(call.before["BTC"]) = 3
    /\ trades["BTC"] = <<call.before["BTC"][2], call.before["BTC"][3]>>
    /\ call.before["BTC"][2].exchange_update_time_point[1]
          = call.before["BTC"][3].exchange_update_time_point[1] - keep_historical_trade_seconds
    /\ trades["ETH"] = call.before["ETH"]

\* a string of k zeros
RECURSIVE Zeros(_)
Zeros(k) == IF k = 0 THEN "" ELSE "0" \o Zeros(k - 1)

\* the counter that the call found and the one it left
CounterRestartsOrAdvances ==
    last_client_order_id_sequence_number =
        Some(IF call.before.last_client_order_id_unix_timestamp_seconds # Some(call.arg)
             THEN 0 ELSE Val(call.before.last_client_order_id_sequence_number) + 1)

\* the id is the second followed by the suffix, and the suffix is the counter
\* behind zeros
IdIsSecondAndPaddedCounter ==
    /\ call.result = ToString(call.arg) \o call.client_order_id_sequence_number_suffix
    /\ \E k \in 0..options.client_order_id_sequence_number_padding_length :
          call.client_order_id_sequence_number_suffix
              = Zeros(k) \o ToString(Val(last_client_order_id_sequence_number))

\* C22: generate_next_client_order_id returns the current unix second
\* followed by a per-second counter zero-padded to the configured padding
\* length: the counter restarts at 0 whenever the second differs from that
\* of the previous call, increases by one for each further call within the
\* same second, and the suffix always has exactly the configured length.
C22_SecondThenCounterOfPaddingLength ==
    call.op = "generate_next_client_order_id" =>
        /\ CounterRestartsOrAdvances
        /\ IdIsSecondAndPaddedCounter
        /\ Len(call.client_order_id_sequence_number_suffix) = options.client_order_id_sequence_number_padding_length

\* what generate_next_client_order_id does keep to: the suffix is never
\* shorter than the padding length
SecondThenCounterAtLeastPaddingLength ==
    call.op = "generate_next_client_order_id" =>
        /\ CounterRestartsOrAdvances
        /\ IdIsSecondAndPaddedCounter
        /\ Len(call.client_order_id_sequence_number_suffix) >= options.client_order_id_sequence_number_padding_length

\* a handler has fed one incoming record to update_order: the record, the
\* orders of its symbol before and after, and the position at which the
\* lookup of the specification finds the order (0 when it finds none): by
\* the client order id when the record has one, by the order id otherwise
Incoming == call.arg[1]
OrdersOfSymbolBefore == DictGet(call.before, Incoming.symbol)
OrdersOfSymbolAfter == DictGet(orders, Incoming.symbol)

OneOrderUpdated == call.op \in UpdateOrderHandlers /\ Len(call.arg) = 1

HasClientOrderId(order) == order.client_order_id # None /\ order.client_order_id # Some("")

LookedUp ==
    LET matches(order) ==
            IF HasClientOrderId(Incoming) THEN order.client_order_id = Incoming.client_order_id
            ELSE order.order_id = Incoming.order_id
        found == {i \in 1..Len(OrdersOfSymbolBefore) : matches(OrdersOfSymbolBefore[i])}
    IN  IF found = {} THEN 0 ELSE CHOOSE i \in found : \A j \in found : i <= j

\* the merge conditions (a) and (b): the incoming value is present and
\* strictly greater than the stored one, or the stored one is nil
PresentAndGreater(stored, incoming) ==
    incoming # None /\ (stored = None \/ Val(incoming) > Val(stored))

\* the merge condition (c) as stated: the incoming cumulative filled quantity
\* is strictly larger than the stored one, no quantity counting as nothing
\* filled
FilledQuantityOf(quantity) == IF quantity = None THEN 0 ELSE DecimalOf(Val(quantity))

StrictlyLargerFilledQuantity(stored, incoming) ==
    FilledQuantityOf(incoming.cumulative_filled_quantity) > FilledQuantityOf(stored.cumulative_filled_quantity)

\* the merge condition (c) with the case of (a) and (b): the incoming
\* quantity is present and strictly larger than the stored one, or the stored
\* one is nil
PresentAndLargerFilledQuantity(stored, incoming) ==
    /\ incoming.cumulative_filled_quantity # None
    /\ \/ stored.cumulative_filled_quantity = None
       \/ FilledQuantityOf(incoming.cumulative_filled_quantity) > FilledQuantityOf(stored.cumulative_filled_quantity)

MergeConditionAOrB(stored, incoming) ==
    \/ PresentAndGreater(stored.exchange_update_time_point, incoming.exchange_update_time_point)
    \/ PresentAndGreater(stored.status, incoming.status)

\* C23 as stated: update_order on an order already in the cache changes
\* nothing (no field of the stored order and no position in the list) when
\* none of the three merge conditions holds: (a) the incoming
\* exchange_update_time_point is present and strictly greater than the stored
\* one (or the stored one is nil), (b) the same for the status, (c) the
\* incoming cumulative_filled_quantity is strictly larger than the stored one.
C23_NoMergeConditionNoChange ==
    (OneOrderUpdated /\ LookedUp # 0) =>
        LET stored == OrdersOfSymbolBefore[LookedUp]
        IN  (~MergeConditionAOrB(stored, Incoming) /\ ~StrictlyLargerFilledQuantity(stored, Incoming))
                => orders = call.before

\* what update_order does keep to: nothing changes when neither (a) nor (b)
\* holds and the incoming cumulative_filled_quantity is neither strictly
\* larger than the stored one nor present while the stored one is nil
NoChangeUnlessNilQuantityFilled ==
    (OneOrderUpdated /\ LookedUp # 0) =>
        LET stored == OrdersOfSymbolBefore[LookedUp]
        IN  (~MergeConditionAOrB(stored, Incoming) /\ ~PresentAndLargerFilledQuantity(stored, Incoming))
                => orders = call.before

\* a record of the filled order with an earlier time, a lower status and the
\* same filled quantity was dropped
StaleRecordDropped ==
    /\ OneOrderUpdated
    /\ LookedUp = 2
    /\ OrdersOfSymbolBefore[2].status = Some(FILLED)
    /\ Incoming.status = Some(PARTIALLY_FILLED)
    /\ Incoming.cumulative_filled_quantity = OrdersOfSymbolBefore[2].cumulative_filled_quantity
    /\ Val(Incoming.exchange_update_time_point) < Val(OrdersOfSymbolBefore[2].exchange_update_time_point)
    /\ orders = call.before

\* the fields of an order that a merge keeps as they were stored
KeptFields ==
    {"api_method", "symbol", "is_buy", "is_market", "is_post_only", "is_fok", "is_ioc", "is_reduce_only",
     "client_order_id", "extra_params", "extra_data"}

\* C24: when update_order merges an incoming order into a stored one, the
\* result keeps the stored api_method, symbol, is_buy, order-type flags,
\* client_order_id, extra_params and extra_data; takes order_id, price and
\* quantity from the incoming order only when they are non-nil and different;
\* keeps a stored non-nil exchange_create_time_point; and takes status and
\* exchange_update_time_point from the incoming order.
C24_MergeKeepsAndTakes ==
    (OneOrderUpdated /\ LookedUp # 0) =>
        LET stored == OrdersOfSymbolBefore[LookedUp]
            merged == OrdersOfSymbolAfter[LookedUp]
        IN  (MergeConditionAOrB(stored, Incoming) \/ PresentAndLargerFilledQuantity(stored, Incoming)) =>
                /\ \A f \in KeptFields : merged[f] = stored[f]
                /\ \A f \in {"order_id", "price", "quantity"} :
                      merged[f] = IF Incoming[f] # None /\ Incoming[f] # stored[f] THEN Incoming[f] ELSE stored[f]
                /\ stored.exchange_create_time_point # None
                      => merged.exchange_create_time_point = stored.exchange_create_time_point
                /\ merged.status = Incoming.status
                /\ merged.exchange_update_time_point = Incoming.exchange_update_time_point

\* the venue's record of the order created here, found by its client order
\* id, was merged: the record differs from the stored order in the fields
\* that are kept, and brings another price and create time
C24_Witness ==
    /\ OneOrderUpdated
    /\ LookedUp = 2
    /\ OrdersOfSymbolBefore[2].status = Some(CREATE_ACKNOWLEDGED)
    /\ OrdersOfSymbolBefore[2].exchange_create_time_point = Some(1)
    /\ Incoming.status = Some(PARTIALLY_FILLED)
    /\ Incoming.exchange_create_time_point # Some(1)
    /\ Incoming.is_buy = Some(FALSE)
    /\ Incoming.price = Some("2")
    /\ OrdersOfSymbolAfter[2].price = Some("2")
    /\ OrdersOfSymbolAfter[2].is_buy = Some(TRUE)
    /\ OrdersOfSymbolAfter[2].status = Some(PARTIALLY_FILLED)

\* C25: update_order looks the order up among the cached orders of its
\* symbol by client_order_id when the incoming order has one, otherwise by
\* order_id; when no stored order matches, the incoming order is appended at
\* the end of the symbol's list with local_update_time_point = now, and a
\* merge replaces the stored order in place, so each symbol's list stays in
\* first-insertion order.
C25_LookupAppendOrReplaceInPlace ==
    OneOrderUpdated =>
        /\ \A symbol \in DOMAIN call.before : symbol # Incoming.symbol => orders[symbol] = call.before[symbol]
        /\ IF LookedUp = 0
           THEN OrdersOfSymbolAfter
                    = OrdersOfSymbolBefore
                        \o <<[Incoming EXCEPT !.local_update_time_point = Some(time_point_now)]>>
           ELSE /\ Len(OrdersOfSymbolAfter) = Len(OrdersOfSymbolBefore)
                /\ \A i \in 1..Len(OrdersOfSymbolBefore) :
                      IF i = LookedUp
                      THEN OrdersOfSymbolAfter[i].client_order_id = OrdersOfSymbolBefore[i].client_order_id
                      ELSE OrdersOfSymbolAfter[i] = OrdersOfSymbolBefore[i]

\* a record that names the order created here by its client order id and
\* carries the order id of the order before it in the list was merged into
\* the order created here, at its place
C25_Witness ==
    /\ OneOrderUpdated
    /\ Len(OrdersOfSymbolBefore) = 2
    /\ Incoming.client_order_id = OrdersOfSymbolBefore[2].client_order_id
    /\ Incoming.order_id = OrdersOfSymbolBefore[1].order_id
    /\ LookedUp = 2
    /\ OrdersOfSymbolAfter[2] # OrdersOfSymbolBefore[2]
    /\ OrdersOfSymbolAfter[1] = OrdersOfSymbolBefore[1]

\* a record of an order the cache does not hold was appended
UnknownOrderAppended ==
    /\ OneOrderUpdated
    /\ Len(OrdersOfSymbolBefore) = 2
    /\ LookedUp = 0
    /\ Len(OrdersOfSymbolAfter) = 3

\* C26: once an order in the cache has reached a closed status (FILLED,
\* CANCELED, EXPIRED or REJECTED), no later operation on the session
\* (cancel_order, cancel_orders, update_order from a REST response, stream
\* push or corrective fetch, or an error-hook update) puts it back into a
\* non-closed status.
C26_ClosedStaysClosed ==
    [][\A symbol \in DOMAIN orders :
          \A i \in 1..Len(orders[symbol]) :
              is_closed(orders[symbol][i])
                  => /\ symbol \in DOMAIN orders'
                     /\ i <= Len(orders'[symbol])
                     /\ is_closed(orders'[symbol][i])]_vars

\* the operations other than cancel_order keep a closed order closed unless
\* update_order merges a record into it
ClosedStaysClosedButForCancelAndMerge ==
    [][(call' # Idle /\ call'.op \notin UpdateOrderHandlers \cup {"cancel_order"}) =>
          \A symbol \in DOMAIN orders :
              \A i \in 1..Len(orders[symbol]) :
                  is_closed(orders[symbol][i])
                      => /\ symbol \in DOMAIN orders'
                         /\ i <= Len(orders'[symbol])
                         /\ is_closed(orders'[symbol][i])]_vars

\* the order at place is in the cache with a status in flight
InFlightAt(place) ==
    /\ place[1] \in DOMAIN orders
    /\ place[2] <= Len(orders[place[1]])
    /\ is_in_flight(orders[place[1]][place[2]])

\* C27: every order that enters CREATE_IN_FLIGHT or CANCEL_IN_FLIGHT
\* eventually leaves the in-flight statuses (the record of the venue is
\* merged or the order is marked REJECTED), as long as the session stays
\* started, the in-flight check is enabled and the venue answers every
\* request: an order the venue does not know is not left in flight and
\* fetched again for ever.
C27_InFlightEventuallyLeaves ==
    \A place \in OrderPlaces :
        (session = "started" /\ ~stopped /\ InFlightAt(place)) ~> (~InFlightAt(place) \/ stopped)

\* on OKX every order in flight eventually leaves the in-flight statuses
InFlightEventuallyLeavesOnOkx ==
    \A place \in OrderPlaces :
        (options.name = "okx" /\ session = "started" /\ ~stopped /\ InFlightAt(place))
            ~> (~InFlightAt(place) \/ stopped)

\* on Bybit a fetch_order answered with an empty list has left the order in
\* flight
UnknownOrderLeftInFlight ==
    \E name \in CheckOrderTasks :
        /\ options.name = "bybit"
        /\ periodic_tasks[name] = "answered"
        /\ InFlightAt(Val(check_order_tasks[name]).dispatch)

\* C28: each periodic task started by start() keeps running one iteration
\* per period until stop(): an iteration that fails (transport error, error
\* response, exception in a handler) does not end the task.  A task that
\* was started is asleep, in its iteration or cancelled by stop(), never
\* ended by an exception.
C28_PeriodicTaskNeverEnded ==
    \A name \in PeriodicTasks : periodic_tasks[name] # "ended"

\* an exception ends a periodic check only in a session that is not stopped
\* yet: stop() cancels the tasks that are left
PeriodicTaskEndedBeforeStop ==
    \E name \in CheckOrderTasks : periodic_tasks[name] = "ended" /\ ~stopped /\ session = "started"

\* a step of cancel_orders over all the symbols: its start or what it runs
\* after an await
AllSymbolSweepStep ==
    /\ call.op \in {"cancel_orders", "cancel_orders_resume"}
    /\ call.arg.symbol = None

\* C29: an all-symbol sweep over the order cache that is suspended at one of
\* its awaits is not disturbed by a concurrent task inserting an order of a
\* symbol that has no cached orders yet: the sweep still visits every symbol
\* it started with and completes without error.
C29_SweepCompletesWithoutError ==
    AllSymbolSweepStep => ~call.raised

\* a sweep raises only when the cache has got a symbol since it started
SweepRaisesOnlyOnNewSymbol ==
    (AllSymbolSweepStep /\ call.raised) => Cardinality(DOMAIN orders) > Val(call.arg.size)

\* a step clears the accumulated reconnect delay of the endpoint e
ReconnectDelayCleared(e) ==
    /\ e \in DOMAIN websocket_reconnect_delay_seconds
    /\ websocket_reconnect_delay_seconds[e] > 0
    /\ e \notin DOMAIN websocket_reconnect_delay_seconds'

\* C30: the reconnect delay of an endpoint is cleared only after the
\* endpoint has stayed connected for the 60 seconds that follow its
\* successful subscribe or login response; if the connection drops before,
\* the accumulated delay is kept.  The sleep of 60 seconds ends in the step
\* that clears the delay, so the endpoint is connected in that step.
C30_DelayClearedOnlyWhileConnected ==
    [][\A e \in Endpoints :
          ReconnectDelayCleared(e) =>
              /\ e \in websocket_connections
              /\ websocket_tasks[e] = "open"
              /\ ~connection[e].closed]_vars

\* the accumulated delay is cleared by the step that ends the sleep of
\* reset_websocket_reconnect_delay and by no other
DelayClearedOnlyByResetTask ==
    [][\A e \in Endpoints : ReconnectDelayCleared(e) => reset_tasks'[e] = reset_tasks[e] - 1]_vars

\* the entry of the log of send_rest_request ends the chain: handling
\* raised, the response is a failure, or it names no next page
EndsChain(entry) ==
    \/ entry.event = "handling raised"
    \/ /\ entry.event = "response"
       /\ \/ ~bybit_is_rest_response_success(entry.rest_response)
          \/ dict_get(entry.rest_response.json_deserialized_payload["result"], "nextPagerCursor")
                \in {None, Some("")}

\* the entry is a response whose page went into the cache found before
ResponseHandled(entry) ==
    /\ entry.event = "response"
    /\ bybit_is_rest_response_success(entry.rest_response)

\* the request at i of the log follows a response after the sleep of the
\* handler's delay, and it is the request of the page the response names
FollowsResponse(log, i) ==
    LET r == IF rest_account_send_consecutive_request_delay_seconds = 0 THEN i - 1 ELSE i - 2
    IN  /\ r >= 1
        /\ ResponseHandled(log[r])
        /\ ~EndsChain(log[r])
        /\ log[i].rest_request.query_params =
              Some(DictSet(EmptyDict, "cursor",
                           Val(log[r].rest_response.json_deserialized_payload["result"]["nextPagerCursor"])))
        /\ rest_account_send_consecutive_request_delay_seconds # 0 =>
              log[i - 1] = [event |-> "sleep", seconds |-> rest_account_send_consecutive_request_delay_seconds]

\* the orders the last response of the log left, None when the log has none
RECURSIVE LastResponse(_)
LastResponse(log) ==
    IF log = <<>> THEN None
    ELSE IF log[Len(log)].event = "response" THEN Some(log[Len(log)])
         ELSE LastResponse(SubSeq(log, 1, Len(log) - 1))

\* C31: send_rest_request issues the follow-up request a handler returns
\* only after the previous response has been handled completely (the cache
\* holds its page) and after the sleep of the handler's delay; at most one
\* request of the chain is outstanding; the chain ends as soon as a handler
\* returns no continuation, the response is a failure or handling raises.
C31_ChainOneRequestAtATime ==
    send_rest_request_task.pc # "none" =>
        LET task == send_rest_request_task
            log == task.log
            requests == {i \in 1..Len(log) : log[i].event = "request"}
        IN  /\ task.outstanding = (IF task.pc = "request" THEN 1 ELSE 0)
            /\ \A i \in requests :
                  (\E j \in requests : j < i) => FollowsResponse(log, i)
            /\ LastResponse(log) # None /\ ResponseHandled(Val(LastResponse(log))) =>
                  orders = update_orders(Val(LastResponse(log)).before,
                                         Val(LastResponse(log)).rest_response.json_deserialized_payload["result"]["list"])
            /\ \A i \in 1..Len(log) :
                  log[i].event \in {"response", "handling raised"} /\ EndsChain(log[i]) =>
                      i = Len(log) /\ task.pc = "returned"
            /\ task.pc = "returned" => EndsChain(log[Len(log)])

\* a chain of three requests has ended on a page without cursor, and its
\* pages are in the cache
C31_Witness ==
    /\ send_rest_request_task.pc = "returned"
    /\ RequestsIssued(send_rest_request_task) = MaxRestRequests
    /\ ResponseHandled(send_rest_request_task.log[Len(send_rest_request_task.log)])
    /\ orders # EmptyDict

-----------------------------------------------------------------------------
(* The loop over the frames of a connection.                               *)

\* the numbers of a sequence of frames grow
IsInArrivalOrder(numbers) ==
    \A i, j \in 1..Len(numbers) : i < j => numbers[i] < numbers[j]

\* C32: for each stream connection the TEXT frames are handled strictly in
\* the order of their arrival: the handlers begin in arrival order, they end
\* in the order they began, at most one frame is being handled, which is the
\* last one that began, and the frames that arrived after it wait until its
\* handler, every await of it included, is over.
C32_FramesHandledInArrivalOrder ==
    \A e \in Endpoints :
        LET frames == websocket_frames[e]
        IN  /\ IsInArrivalOrder(frames.begun)
            /\ Len(frames.ended) <= Len(frames.begun)
            /\ frames.ended = SubSeq(frames.begun, 1, Len(frames.ended))
            /\ Len(frames.begun) <= Len(frames.ended) + 1
            /\ {frame.n : frame \in frames.handling} =
                  {frames.begun[i] : i \in Len(frames.ended) + 1 .. Len(frames.begun)}
            /\ \A i \in 1..Len(frames.arrived), j \in 1..Len(frames.begun) :
                  frames.begun[j] < frames.arrived[i].n
            /\ IsInArrivalOrder([i \in 1..Len(frames.arrived) |-> frames.arrived[i].n])

\* a handler is suspended in an await while the next frame of its connection
\* has arrived, after a first frame has been handled
C32_Witness ==
    \E e \in Endpoints :
        /\ websocket_frames[e].handling # {}
        /\ websocket_frames[e].arrived # <<>>
        /\ Head(websocket_frames[e].arrived).type = "TEXT"
        /\ Len(websocket_frames[e].ended) >= 1

\* the handling of a frame of e raises in this step
FrameRaises(e) == websocket_frames'[e].raised # websocket_frames[e].raised

\* C33: an exception raised while a frame is deserialized or handled is
\* logged and the frame is over; the step leaves the connection as open as it
\* was, registered, its task in the loop over the frames with no handler
\* under way, and the frames that wait are kept for it.
C33_RaisedFrameDropped ==
    [][\A e \in Endpoints :
          FrameRaises(e) =>
              /\ \E n \in websocket_frames'[e].raised \ websocket_frames[e].raised :
                    /\ websocket_frames'[e].ended = Append(websocket_frames[e].ended, n)
                    /\ websocket_frames'[e].raised = websocket_frames[e].raised \cup {n}
                    /\ \A frame \in websocket_frames'[e].handling : frame.n # n
              /\ websocket_frames'[e].handling = {}
              /\ connection'[e].closed = connection[e].closed
              /\ websocket_tasks'[e] = "open"
              /\ websocket_tasks[e] = "open"
              /\ e \in websocket_connections'
              /\ \/ websocket_frames'[e].arrived = websocket_frames[e].arrived
                 \/ /\ websocket_frames[e].arrived # <<>>
                    /\ Head(websocket_frames[e].arrived).n = websocket_frames'[e].ended[Len(websocket_frames'[e].ended)]
                    /\ websocket_frames'[e].arrived = Tail(websocket_frames[e].arrived)]_vars

\* on a connection that is still open, a frame that arrived after a frame
\* whose handling raised has been handled to its end
C33_Witness ==
    \E e \in Endpoints :
        /\ ~websocket_connection_auto_reconnect
        /\ websocket_tasks[e] = "open"
        /\ ~connection[e].closed
        /\ \E n \in websocket_frames[e].raised :
              \E i \in 1..Len(websocket_frames[e].ended) :
                  /\ websocket_frames[e].ended[i] > n
                  /\ websocket_frames[e].ended[i] \notin websocket_frames[e].raised

-----------------------------------------------------------------------------
(* The identity of the orders in the cache.                                *)

\* two entries of a symbol under one client order id, or under one order id
SharesId(a, b) ==
    \/ a.client_order_id # None /\ a.client_order_id # Some("") /\ a.client_order_id = b.client_order_id
    \/ a.order_id # None /\ a.order_id = b.order_id

\* C34: each order is represented by at most one entry of the cache: no two
\* orders of a symbol share a non-empty client order id or a non-nil order id.
C34_OneEntryPerOrder ==
    \A symbol \in DOMAIN orders :
        \A i, j \in 1..Len(orders[symbol]) :
            i # j => ~SharesId(orders[symbol][i], orders[symbol][j])

\* what holds instead: two entries share an id only when one of them came of
\* the answer to a cancel request that named the order by its order id alone,
\* and no two entries share a client order id
EntriesShareOnlyOrderIdOfCancelAnswer ==
    \A symbol \in DOMAIN orders :
        \A i, j \in 1..Len(orders[symbol]) :
            (i # j /\ SharesId(orders[symbol][i], orders[symbol][j])) =>
                /\ orders[symbol][i].order_id = orders[symbol][j].order_id
                /\ orders[symbol][i].client_order_id # orders[symbol][j].client_order_id
                /\ None \in {orders[symbol][i].client_order_id, orders[symbol][j].client_order_id}

-----------------------------------------------------------------------------
(* The time and the status of the venue on the orders of the cache.        *)

\* C35: for every order in the cache, exchange_update_time_point never moves
\* backwards and never returns to nil once it is set, whatever record
\* update_order merges into the order.
C35_UpdateTimeNeverBackwards ==
    (OneOrderUpdated /\ LookedUp # 0) =>
        LET stored == OrdersOfSymbolBefore[LookedUp]
            merged == OrdersOfSymbolAfter[LookedUp]
        IN  stored.exchange_update_time_point # None =>
                /\ merged.exchange_update_time_point # None
                /\ Val(merged.exchange_update_time_point) >= Val(stored.exchange_update_time_point)

\* what update_order does keep to: the time stays set, and it moves backwards
\* only with a record that is merged for its status or its filled quantity
UpdateTimeBackwardsOnlyByStatusOrFill ==
    (OneOrderUpdated /\ LookedUp # 0) =>
        LET stored == OrdersOfSymbolBefore[LookedUp]
            merged == OrdersOfSymbolAfter[LookedUp]
        IN  stored.exchange_update_time_point # None =>
                /\ merged.exchange_update_time_point # None
                /\ Val(merged.exchange_update_time_point) < Val(stored.exchange_update_time_point) =>
                      /\ merged.exchange_update_time_point = Incoming.exchange_update_time_point
                      /\ \/ PresentAndGreater(stored.status, Incoming.status)
                         \/ PresentAndLargerFilledQuantity(stored, Incoming)

\* an earlier record with status NEW was merged into an order whose cancel
\* is under way, and took its time back
EarlierRecordMergedForItsStatus ==
    /\ OneOrderUpdated
    /\ LookedUp # 0
    /\ OrdersOfSymbolBefore[LookedUp].status = Some(CANCEL_IN_FLIGHT)
    /\ OrdersOfSymbolBefore[LookedUp].exchange_update_time_point = Some(2)
    /\ Incoming.status = Some(NEW_)
    /\ Incoming.cumulative_filled_quantity = Some("0")
    /\ Incoming.exchange_update_time_point = Some(1)
    /\ OrdersOfSymbolAfter[LookedUp].exchange_update_time_point = Some(1)


\* C36: every order in the cache has a non-nil status in every reachable
\* state, so that is_in_flight, is_open, is_closed and is_eligible_to_cancel
\* are defined on it.
C36_StatusNeverNil ==
    \A order \in OrdersIn(orders) : order.status # None

\* what holds instead: an order has no status only when the venue's record
\* that was stored last named a state the mapping of the adapter does not hold
StatusNilOnlyOfUnmappedState ==
    \A order \in OrdersIn(orders) :
        order.status = None =>
            \E input \in OkxOrderRecords :
                /\ input["state"] \notin DOMAIN okx_order_status_mapping
                /\ order.exchange_update_time_point = Some(input["uTime"])

-----------------------------------------------------------------------------
(* The timestamps of the cached BBOs.                                      *)

\* the source timestamp of the BBO cached for the symbol, None without one
CachedBboTime(d, symbol) ==
    IF symbol \in DOMAIN d THEN d[symbol].exchange_update_time_point ELSE None

\* C37 as stated: for every symbol the non-nil source timestamps of the
\* successively cached BBOs never decrease: once a BBO with timestamp T has
\* been cached, no BBO with a smaller non-nil timestamp is cached later, also
\* when updates without a timestamp are applied in between; so no handler
\* leaves a timestamped BBO in the cache where one with a later timestamp
\* was, whatever its batch holds.
C37_BboTimeNeverDecreases ==
    [][\A symbol \in Symbols :
          (/\ CachedBboTime(bbos, symbol) # None
           /\ CachedBboTime(bbos', symbol) # None)
              => Val(CachedBboTime(bbos', symbol)) >= Val(CachedBboTime(bbos, symbol))]_vars

\* the handler under way was handed a BBO of the symbol without a timestamp
UntimestampedBboHandled(symbol) ==
    /\ call' # Idle
    /\ \E i \in 1..Len(call'.arg) :
          /\ call'.arg[i].symbol = symbol
          /\ call'.arg[i].exchange_update_time_point = None

\* C37 as the cache keeps to it: the timestamp of the cached BBO of a symbol
\* never decreases from one timestamped BBO to the next; it is smaller than
\* an earlier one only after a BBO without timestamp was cached in between,
\* in the same batch or in an earlier one.
C37_BboTimeDecreasesOnlyAfterUntimestamped ==
    [][\A symbol \in Symbols :
          (/\ CachedBboTime(bbos, symbol) # None
           /\ CachedBboTime(bbos', symbol) # None
           /\ Val(CachedBboTime(bbos', symbol)) < Val(CachedBboTime(bbos, symbol)))
              => UntimestampedBboHandled(symbol)]_vars

\* a BBO with an earlier timestamp than the cached one was dropped
C37_Witness ==
    /\ BboOneUpdate
    /\ call.arg[1].symbol \in DOMAIN call.before
    /\ call.before[call.arg[1].symbol].exchange_update_time_point = Some(MaxT)
    /\ call.arg[1].exchange_update_time_point = Some(1)
    /\ call.arg[1].best_bid_price # call.before[call.arg[1].symbol].best_bid_price
    /\ bbos = call.before

-----------------------------------------------------------------------------
(* The subscribe frames of the market data streams.                        *)

\* the channels a session subscribes to on the stream of the path
ChannelsOf(path) ==
    IF path = okx_websocket_market_data_path
    THEN (IF options.subscribe_bbo THEN {okx_websocket_market_data_channel_bbo} ELSE {})
         \cup (IF options.subscribe_trade THEN {okx_websocket_market_data_channel_trade} ELSE {})
    ELSE IF path = okx_websocket_market_data_path_2
         THEN {okx_websocket_market_data_channel_ohlcv}
         ELSE (IF options.subscribe_bbo THEN {bybit_websocket_market_data_channel_bbo} ELSE {})
              \cup (IF options.subscribe_trade THEN {bybit_websocket_market_data_channel_trade} ELSE {})
              \cup (IF options.subscribe_ohlcv THEN {bybit_websocket_market_data_channel_ohlcv} ELSE {})

\* the frames split the symbols: every symbol is in exactly one frame for
\* each channel, and no frame carries more symbols than the limit; without a
\* limit there is one frame
FramesSplitSymbols(path, frames) ==
    /\ \A channel \in ChannelsOf(path), symbol \in options.symbols :
          Cardinality({i \in 1..Len(frames) : [channel |-> channel, instId |-> symbol] \in frames[i]}) = 1
    /\ \A i \in 1..Len(frames) :
          /\ \A arg \in frames[i] : arg.channel \in ChannelsOf(path) /\ arg.instId \in options.symbols
          /\ options.websocket_market_data_channel_symbols_limit # None =>
                Cardinality({arg.instId : arg \in frames[i]})
                    <= Val(options.websocket_market_data_channel_symbols_limit)
    /\ options.websocket_market_data_channel_symbols_limit = None => Len(frames) = 1

\* C38: on every connect and reconnect of a market data stream, the
\* subscribed symbols are split over the subscribe frames: every symbol is in
\* exactly one frame for each channel and no frame carries more than
\* websocket_market_data_channel_symbols_limit symbols (one frame with all the
\* symbols when no limit is set).
C38_SubscribeFramesSplitSymbols ==
    call.op = "websocket_market_data_subscribe" => FramesSplitSymbols(call.arg, call.sent)

\* what holds instead: the frames of every stream but the candle stream of
\* OKX split the symbols, and those of the candle stream do when the limit
\* is not smaller than the number of symbols
SubscribeFramesSplitSymbolsButOkxOhlcv ==
    (/\ call.op = "websocket_market_data_subscribe"
     /\ \/ call.arg # okx_websocket_market_data_path_2
        \/ options.websocket_market_data_channel_symbols_limit = None
        \/ Cardinality(options.symbols) <= Val(options.websocket_market_data_channel_symbols_limit))
        => FramesSplitSymbols(call.arg, call.sent)

-----------------------------------------------------------------------------
(* The rounding to the multiples of an increment.                          *)

\* the roundings of the exact quotient input / increment, in integers:
\* the nearest integer with the halves away from zero, the ceiling, the floor
NearestHalfAwayFromZero(input, increment) ==
    IF input >= 0
    THEN (2 * input + increment) \div (2 * increment)
    ELSE 0 - ((2 * (0 - input) + increment) \div (2 * increment))

Ceiling(input, increment) == 0 - ((0 - input) \div increment)

Floor(input, increment) == input \div increment

\* C39: round_to_nearest(x, inc) returns the multiple of inc nearest to x,
\* the exact halves rounded away from zero, round_up and round_down return
\* the ceiling and the floor multiple: every result is inc times the
\* rounding, the ceiling or the floor of x / inc.
C39_RoundedToMultiple ==
    /\ call.op = "round_to_nearest" =>
          call.result = call.before * NearestHalfAwayFromZero(call.arg, call.before)
    /\ call.op = "round_up" => call.result = call.before * Ceiling(call.arg, call.before)
    /\ call.op = "round_down" => call.result = call.before * Floor(call.arg, call.before)

\* what holds instead: every result is a multiple of the increment at most
\* one increment away from the input
RoundedWithinOneIncrement ==
    call.op \in {"round_to_nearest", "round_up", "round_down"} =>
        /\ call.result % call.before = 0
        /\ call.result - call.arg <= call.before
        /\ call.arg - call.result <= call.before

\* round_up and round_down are right on the multiples of 0.5 and of 1, whose
\* floats and quotients are exact
RoundUpDownExactOnBinaryIncrements ==
    (call.op \in {"round_up", "round_down"} /\ call.before \in {5, 10} /\ call.arg % 5 = 0) =>
        call.result = call.before * (IF call.op = "round_up" THEN Ceiling(call.arg, call.before)
                                     ELSE Floor(call.arg, call.before))

-----------------------------------------------------------------------------
(* The logged-in set and the connections.                                  *)

\* the endpoint is logged in on the connection that is registered for it:
\* that connection has sent its login and has received the answer, after
\* which it has sent its subscribe
LoggedInOnConnection(e) ==
    /\ e \in websocket_connections
    /\ connection[e].received
    /\ connection[e].sent = <<"login", "subscribe">>

\* a step that adds e to the logged-in set is the answer to the login on the
\* open connection of e
LoggedInByLoginResponse(e) ==
    (e \notin websocket_logged_in_connections /\ e \in websocket_logged_in_connections') =>
        /\ websocket_tasks[e] = "open"
        /\ ~connection[e].closed
        /\ e \in websocket_connections
        /\ connection[e].sent = <<"login">>
        /\ connection'[e].sent = <<"login", "subscribe">>

\* a step in which the loop of e reports the end of its connection
DisconnectReported(e) ==
    /\ websocket_tasks[e] = "open"
    /\ connection[e].closed
    /\ websocket_tasks'[e] \in {"delay", "done"}

\* a step in which create_order or cancel_order takes the stream branch
StreamBranchTaken ==
    /\ call = Idle
    /\ call'.op \in {"create_order", "cancel_order"}
    /\ call'.api_method = WEBSOCKET

\* C40: in every reachable state every endpoint of the logged-in set has a
\* connection registered in websocket_connections and was added by the
\* answer to the login received on that connection; a reported disconnect
\* removes the endpoint from both, so the stream branch of create_order and
\* cancel_order never looks up a connection that is missing.
C40_LoggedInHasConnection ==
    /\ [](\A e \in websocket_logged_in_connections : LoggedInOnConnection(e))
    /\ [][/\ \A e \in Endpoints : LoggedInByLoginResponse(e)
          /\ \A e \in Endpoints : DisconnectReported(e) =>
                /\ e \notin websocket_connections'
                /\ e \notin websocket_logged_in_connections'
          /\ StreamBranchTaken =>
                websocket_account_trade_url_with_query_params \in websocket_connections]_vars

\* an order is cancelled over the stream on the connection that logged in
\* after a reconnect, the delay of the reconnects not yet reset
C40_Witness ==
    /\ call.op = "cancel_order"
    /\ call.api_method = WEBSOCKET
    /\ "account" \in websocket_logged_in_connections
    /\ "account" \in websocket_connections
    /\ "account" \in DOMAIN websocket_reconnect_delay_seconds
    /\ ~connection["account"].closed

====
